---- MODULE Spec2Model ----
(***************************************************************************)
(* ImageFlow authentication core: the RequireAuth gate, the OIDC login and *)
(* callback handlers, the JWT session issuer/validator and the Redis user  *)
(* store, as a state machine with one action per HTTP handler or store     *)
(* operation.                                                              *)
(***************************************************************************)
EXTENDS Integers, Sequences, FiniteSets, TLC

\* ------------------------------------------------------------------ bounds
MaxLogins == 2         \* login requests that generate a state
MaxTicks == 1          \* clock advances
MaxHeaderLen == 4      \* atoms of an Authorization header (API-key gate)
TicksPerSecond == 2    \* clock resolution: ticks in one second
MaxOpsPerUser == 2     \* UserStore operations one goroutine runs in a row
MaxPathLen == 2        \* characters of an image id or a user id given to the resolver

\* --------------------------------------------------------------- constants
Hour == 3600 * TicksPerSecond
TokenTTL == 24 * Hour          \* time.Now().Add(24 * time.Hour)
ZeroTime == 0                  \* the zero time.Time of an unset field
NReads == 8                    \* time.Now() reads of one callback
NOps == 6                      \* Redis commands of one CreateOrUpdateUser

Users == {"u1", "u2"}
Profiles ==
  { [Email |-> "e1", Name |-> "n1", Picture |-> "p1"],
    [Email |-> "e2", Name |-> "n2", Picture |-> ""] }

AuthTypeAPIKey == "api_key"
AuthTypeOIDC == "oidc"

VARIABLES
  cfg,          \* config.Config: [AuthType, APIKey], read at startup
  OIDCClient,   \* utils.OIDCClient: [Initialized, JWTSignKey], or NULL
  UserManager,  \* utils.UserManager is set (non-nil)
  store,        \* Redis: user:<id> -> marshalled User, or Nil
  userList,     \* Redis set user:list
  now,          \* wall clock, in ticks
  nTicks,       \* clock advances so far
  jar,          \* the browser's oidc_state cookie: NoCookie or its value
  nStates,      \* states generated so far (state values are 1..nStates)
  held,         \* a session token the client kept, or NoToken
  consumed,     \* history: states of callbacks that issued a session
  passed,       \* history: states the browser carried through a state check
  deactivated,  \* history: users for whom DeactivateUser returned nil
  procs,        \* goroutines running UserStore operations command by command
  fs,           \* the file system under the image base path: [dirs, files]
  client,       \* the browser: session cache, AuthProvider state, page effects
  last          \* the last request and its response

vars == <<cfg, OIDCClient, UserManager, store, userList, now, nTicks, jar,
          nStates, held, consumed, passed, deactivated, procs, fs, client, last>>

\* No directory created yet.
NoFS == [dirs |-> {}, files |-> {}]

\* No code and state in the page's URL.
NoParams == [code |-> "", state |-> ""]

\* localStorage without imageflow_jwt_token, imageflow_user and
\* imageflow_token_expiry. A missing item and an empty one read alike.
NoCache == [token |-> "", user |-> "", expiry |-> <<>>]

\* The AuthProvider's state as useState initializes it.
NoCtx ==
  [user |-> "", token |-> "", authType |-> "oidc", isAuthenticated |-> FALSE,
   isLoading |-> TRUE]

\* No page open, nothing cached, no API key stored.
NoClient ==
  [page |-> "closed", url |-> NoParams, cache |-> NoCache, apiKey |-> FALSE,
   ctx |-> NoCtx, provider |-> "none", callback |-> "none", posts |-> <<>>]

NULL == [Initialized |-> FALSE, JWTSignKey |-> "", nil |-> TRUE]
Nil == <<>>
NoCookie == 0 - 1
NoToken == [alg |-> "", sig |-> ""]
NoUser == [ID |-> ""]
NoProcs == <<>>

\* ------------------------------------------------------------------ errors
\* An error value is its message: a format and the argument it was built with.
NoErr == [fmt |-> "", arg |-> ""]
Errorf(f, a) == [fmt |-> f, arg |-> a]

\* --------------------------------------------------------------- the clock
\* jwt.NewNumericDate truncates to jwt.TimePrecision (one second).
Trunc(t) == t - (t % TicksPerSecond)

\* The k-th time.Now() of a handler, when the clock ticks just before read tickAt.
Clock(k, tickAt) == IF tickAt # 0 /\ k >= tickAt THEN now + 1 ELSE now

\* ------------------------------------------------------------ user records
\* json.Marshal / json.Unmarshal of utils.User, in field order.
Marshal(u) ==
  <<u.ID, u.Email, u.Name, u.Picture, u.Provider,
    u.CreatedAt, u.UpdatedAt, u.LastLogin, u.IsActive>>

Unmarshal(d) ==
  [ID |-> d[1], Email |-> d[2], Name |-> d[3], Picture |-> d[4], Provider |-> d[5],
   CreatedAt |-> d[6], UpdatedAt |-> d[7], LastLogin |-> d[8], IsActive |-> d[9]]

\* ------------------------------------------------------------- RedisUserStore
\* Every operation takes the store it runs on and returns the store it leaves.
\* `fail` says whether the Redis command issued fails.

\* One key for every user.
userKeyShared(userID) == "u1"

\* keyPrefix + userID: the store is indexed by the id, the prefix left implicit.
userKey(userID) == userID

\* GetUser reporting a failed read as a missing key.
GetUserUntyped(st, userID, fail) ==
  IF fail \/ st[userKey(userID)] = Nil
  THEN [err |-> Errorf("user not found: %s", userID), user |-> NoUser]
  ELSE [err |-> NoErr, user |-> Unmarshal(st[userKey(userID)])]

GetUser(st, userID, fail) ==
  IF fail THEN [err |-> Errorf("failed to get user from Redis: %v", "redis"), user |-> NoUser]
  ELSE IF st[userKey(userID)] = Nil THEN [err |-> Errorf("user not found: %s", userID), user |-> NoUser]
  ELSE [err |-> NoErr, user |-> Unmarshal(st[userKey(userID)])]

\* Commands: Set, then SAdd (whose failure is only logged).
CreateUser(st, lst, user, tCreated, tUpdated, failSet, failSAdd) ==
  LET u == [user EXCEPT !.CreatedAt = tCreated, !.UpdatedAt = tUpdated, !.IsActive = TRUE]
  IN IF failSet
     THEN [err |-> Errorf("failed to create user in Redis: %v", "redis"),
           user |-> u, store |-> st, list |-> lst]
     ELSE [err |-> NoErr, user |-> u,
           store |-> [st EXCEPT ![userKey(u.ID)] = Marshal(u)],
           list |-> IF failSAdd THEN lst ELSE lst \cup {u.ID}]

\* UpdateUser keeping the stored email along with the stored creation time.
PreserveCreatedAtAndEmail(user, existing, tUpdated) ==
  [user EXCEPT !.CreatedAt = existing.CreatedAt, !.Email = existing.Email,
               !.UpdatedAt = tUpdated]

\* user.CreatedAt = existingUser.CreatedAt; user.UpdatedAt = time.Now()
PreserveCreatedAt(user, existing, tUpdated) ==
  [user EXCEPT !.CreatedAt = existing.CreatedAt, !.UpdatedAt = tUpdated]

\* UpdateUser stamping the creation time as well as the update time.
UpdateUserStampsCreatedAt(st, user, tUpdated, failGet, failSet) ==
  LET Write(u) ==
        IF failSet
        THEN [err |-> Errorf("failed to update user in Redis: %v", "redis"),
              user |-> u, store |-> st]
        ELSE [err |-> NoErr, user |-> u, store |-> [st EXCEPT ![userKey(u.ID)] = Marshal(u)]]
      Then(got) ==
        IF got.err # NoErr THEN [err |-> got.err, user |-> user, store |-> st]
        ELSE Write([user EXCEPT !.CreatedAt = tUpdated, !.UpdatedAt = tUpdated])
  IN Then(GetUser(st, user.ID, failGet))

\* UpdateUser writing the supplied record without reading the stored one.
UpdateUserBlind(st, user, tUpdated, failGet, failSet) ==
  LET u == [user EXCEPT !.UpdatedAt = tUpdated]
  IN IF failGet \/ failSet
     THEN [err |-> Errorf("failed to update user in Redis: %v", "redis"),
           user |-> u, store |-> st]
     ELSE [err |-> NoErr, user |-> u, store |-> [st EXCEPT ![userKey(u.ID)] = Marshal(u)]]

\* Commands: Get, then Set.
UpdateUser(st, user, tUpdated, failGet, failSet) ==
  LET Write(u) ==
        IF failSet
        THEN [err |-> Errorf("failed to update user in Redis: %v", "redis"),
              user |-> u, store |-> st]
        ELSE [err |-> NoErr, user |-> u, store |-> [st EXCEPT ![userKey(u.ID)] = Marshal(u)]]
      Then(got) ==
        IF got.err # NoErr THEN [err |-> got.err, user |-> user, store |-> st]
        ELSE Write(PreserveCreatedAt(user, got.user, tUpdated))
  IN Then(GetUser(st, user.ID, failGet))

\* UpdateLastLogin marking the user active as it stamps the login.
UpdateLastLoginActivates(st, userID, tLogin, tUpdated, tWrite, failGet, failGet2, failSet) ==
  LET Then(got) ==
        IF got.err # NoErr THEN [err |-> got.err, user |-> NoUser, store |-> st]
        ELSE UpdateUser(st, [got.user EXCEPT !.LastLogin = tLogin, !.UpdatedAt = tUpdated,
                                             !.IsActive = TRUE],
                        tWrite, failGet2, failSet)
  IN Then(GetUser(st, userID, failGet))

\* Commands: Get, then UpdateUser's Get and Set.
UpdateLastLogin(st, userID, tLogin, tUpdated, tWrite, failGet, failGet2, failSet) ==
  LET Then(got) ==
        IF got.err # NoErr THEN [err |-> got.err, user |-> NoUser, store |-> st]
        ELSE UpdateUser(st, [got.user EXCEPT !.LastLogin = tLogin, !.UpdatedAt = tUpdated],
                        tWrite, failGet2, failSet)
  IN Then(GetUser(st, userID, failGet))

\* DeactivateUser deleting the record instead of flagging it.
DeactivateUserDeletes(st, userID, tUpdated, tWrite, failGet, failGet2, failSet) ==
  LET Then(got) ==
        IF got.err # NoErr THEN [err |-> got.err, user |-> NoUser, store |-> st]
        ELSE IF failGet2 \/ failSet
        THEN [err |-> Errorf("failed to update user in Redis: %v", "redis"),
              user |-> got.user, store |-> st]
        ELSE [err |-> NoErr, user |-> got.user,
              store |-> [st EXCEPT ![userKey(userID)] = Nil]]
  IN Then(GetUser(st, userID, failGet))

\* Commands: Get, then UpdateUser's Get and Set.
DeactivateUser(st, userID, tUpdated, tWrite, failGet, failGet2, failSet) ==
  LET Then(got) ==
        IF got.err # NoErr THEN [err |-> got.err, user |-> NoUser, store |-> st]
        ELSE UpdateUser(st, [got.user EXCEPT !.IsActive = FALSE, !.UpdatedAt = tUpdated],
                        tWrite, failGet2, failSet)
  IN Then(GetUser(st, userID, failGet))

\* ListUsers returning an error when a member's record cannot be read.
ListUsersAborts(st, lst, failSMembers, failIds) ==
  IF failSMembers \/ \E id \in lst : GetUser(st, id, id \in failIds).err # NoErr
  THEN [err |-> Errorf("failed to get user list from Redis: %v", "redis"), users |-> {}]
  ELSE [err |-> NoErr, users |-> {GetUser(st, id, FALSE).user : id \in lst}]

\* Commands: SMembers, then one Get per member; failIds are the members whose
\* Get fails. The slice returned has one entry per member read, in the order
\* SMembers gave them; the model keeps the entries as a set.
ListUsers(st, lst, failSMembers, failIds) ==
  IF failSMembers
  THEN [err |-> Errorf("failed to get user list from Redis: %v", "redis"), users |-> {}]
  ELSE [err |-> NoErr,
        users |-> {GetUser(st, id, id \in failIds).user :
                     id \in {i \in lst : GetUser(st, i, i \in failIds).err = NoErr}}]

\* Whether the k-th Redis command of a handler fails: only command failAt, or,
\* when the request's context is cancelled there (sticky), every command from it on.
Fails(k, failAt, sticky) == failAt # 0 /\ (k = failAt \/ (sticky /\ k > failAt))

\* --------------------------------------------------------------- OIDCProvider
HMACFamily == {"HS256", "HS384", "HS512"}     \* *jwt.SigningMethodHMAC
SelfSigned == "self"   \* a signature that verifies under the token's own non-HMAC alg
AttackerKey == "attacker-key"

\* The provider's side of o.Config.Exchange and o.Verifier.Verify is the
\* environment: `ok` is its answer.
ExchangeCodeForToken(code, ok) ==
  IF ~OIDCClient.Initialized THEN Errorf("OIDC provider not initialized", "")
  ELSE IF ~ok THEN Errorf("failed to exchange code for token: %v", code)
  ELSE NoErr

ExtractUserInfo(ok) ==
  IF ~OIDCClient.Initialized THEN Errorf("OIDC provider not initialized", "")
  ELSE IF ~ok THEN Errorf("failed to verify ID token: %v", "")
  ELSE NoErr

\* GenerateJWT with a one-hour lifetime.
GenerateJWTOneHour(user, tExp, tIat) ==
  IF ~OIDCClient.Initialized
  THEN [err |-> Errorf("OIDC provider not initialized", ""), token |-> NoToken]
  ELSE [err |-> NoErr,
        token |-> [alg |-> "HS256", sig |-> OIDCClient.JWTSignKey,
                   UserID |-> user.ID, Email |-> user.Email, Name |-> user.Name,
                   Provider |-> user.Provider,
                   ExpiresAt |-> Trunc(tExp + Hour),
                   IssuedAt |-> Trunc(tIat),
                   Issuer |-> "ImageFlow", Subject |-> user.ID]]

GenerateJWT(user, tExp, tIat) ==
  IF ~OIDCClient.Initialized
  THEN [err |-> Errorf("OIDC provider not initialized", ""), token |-> NoToken]
  ELSE [err |-> NoErr,
        token |-> [alg |-> "HS256", sig |-> OIDCClient.JWTSignKey,
                   UserID |-> user.ID, Email |-> user.Email, Name |-> user.Name,
                   Provider |-> user.Provider,
                   ExpiresAt |-> Trunc(tExp + TokenTTL),
                   IssuedAt |-> Trunc(tIat),
                   Issuer |-> "ImageFlow", Subject |-> user.ID]]

\* ValidateJWT whose key function returns the key for every signing method, so
\* the signature is verified under whatever algorithm the header declares.
ValidateJWTAnyMethod(tok, t) ==
  IF ~OIDCClient.Initialized
  THEN [err |-> Errorf("OIDC provider not initialized", ""), claims |-> NoToken]
  ELSE IF tok = NoToken
  THEN [err |-> Errorf("failed to parse JWT token: %v", "token is malformed"), claims |-> NoToken]
  ELSE IF tok.sig # (IF tok.alg \in HMACFamily THEN OIDCClient.JWTSignKey ELSE SelfSigned)
  THEN [err |-> Errorf("failed to parse JWT token: %v", "signature is invalid"), claims |-> NoToken]
  ELSE IF ~(t < tok.ExpiresAt)
  THEN [err |-> Errorf("failed to parse JWT token: %v", "token is expired"), claims |-> NoToken]
  ELSE [err |-> NoErr, claims |-> tok]

\* ValidateJWT parsing without the registered-claims validation (exp unchecked).
ValidateJWTNoExpiry(tok, t) ==
  IF ~OIDCClient.Initialized
  THEN [err |-> Errorf("OIDC provider not initialized", ""), claims |-> NoToken]
  ELSE IF tok = NoToken
  THEN [err |-> Errorf("failed to parse JWT token: %v", "token is malformed"), claims |-> NoToken]
  ELSE IF tok.alg \notin HMACFamily
  THEN [err |-> Errorf("failed to parse JWT token: %v", "unexpected signing method"), claims |-> NoToken]
  ELSE IF tok.sig # OIDCClient.JWTSignKey
  THEN [err |-> Errorf("failed to parse JWT token: %v", "signature is invalid"), claims |-> NoToken]
  ELSE [err |-> NoErr, claims |-> tok]

\* jwt.ParseWithClaims: parse, key function (the signing-method check), signature,
\* then the registered claims (exp: valid while the time is before it).
ValidateJWT(tok, t) ==
  IF ~OIDCClient.Initialized
  THEN [err |-> Errorf("OIDC provider not initialized", ""), claims |-> NoToken]
  ELSE IF tok = NoToken
  THEN [err |-> Errorf("failed to parse JWT token: %v", "token is malformed"), claims |-> NoToken]
  ELSE IF tok.alg \notin HMACFamily
  THEN [err |-> Errorf("failed to parse JWT token: %v", "unexpected signing method"), claims |-> NoToken]
  ELSE IF tok.sig # OIDCClient.JWTSignKey
  THEN [err |-> Errorf("failed to parse JWT token: %v", "signature is invalid"), claims |-> NoToken]
  ELSE IF ~(t < tok.ExpiresAt)
  THEN [err |-> Errorf("failed to parse JWT token: %v", "token is expired"), claims |-> NoToken]
  ELSE [err |-> NoErr, claims |-> tok]

\* CreateOrUpdateUser returning the lastLogin update's failure to its caller.
CreateOrUpdateUserStrict(st, lst, userInfo, provider, failAt, sticky, tickAt) ==
  LET F(k) == Fails(k, failAt, sticky)
      T(k) == Clock(k, tickAt)
      Failed(err, st2, lst2) ==
        [err |-> err, user |-> NoUser, store |-> st2, list |-> lst2, ullErr |-> NoErr]
      Logged(wr, ull) ==
        IF ull.err # NoErr
        THEN Failed(Errorf("failed to update last login: %v", ull.err.fmt),
                    ull.store, wr.list)
        ELSE [err |-> NoErr, user |-> wr.user, store |-> ull.store, list |-> wr.list,
              ullErr |-> ull.err]
      Written(wr, created) ==
        IF wr.err # NoErr
        THEN Failed(Errorf(IF created THEN "failed to create user: %v"
                                      ELSE "failed to update user: %v", wr.err.fmt),
                    wr.store, wr.list)
        ELSE Logged(wr, UpdateLastLogin(wr.store, wr.user.ID, T(3), T(4), T(5),
                                        F(4), F(5), F(6)))
      Updated(w) == [err |-> w.err, user |-> w.user, store |-> w.store, list |-> lst]
      Upsert(got, user) ==
        IF got.err # NoErr /\ got.err # Errorf("user not found: %s", userInfo.Sub)
        THEN Failed(Errorf("error checking existing user: %v", got.err.fmt), st, lst)
        ELSE IF got.user = NoUser
        THEN Written(CreateUser(st, lst, user, T(1), T(2), F(2), F(3)), TRUE)
        ELSE Written(Updated(UpdateUser(st, [user EXCEPT !.CreatedAt = got.user.CreatedAt,
                                                         !.IsActive = got.user.IsActive],
                                        T(2), F(2), F(3))), FALSE)
  IN IF ~UserManager
     THEN Failed(Errorf("user manager not initialized", ""), st, lst)
     ELSE Upsert(GetUser(st, userInfo.Sub, F(1)),
                 [ID |-> userInfo.Sub, Email |-> userInfo.Email, Name |-> userInfo.Name,
                  Picture |-> userInfo.Picture, Provider |-> provider,
                  CreatedAt |-> ZeroTime, UpdatedAt |-> ZeroTime, LastLogin |-> ZeroTime,
                  IsActive |-> FALSE])

\* Redis commands, in order. First login of a subject: Get, Set, SAdd, then
\* UpdateLastLogin's Get, Get, Set. Later logins: Get, UpdateUser's Get and Set,
\* then UpdateLastLogin's Get, Get, Set. time.Now() reads 1..5 are CreateUser's
\* CreatedAt, the first write's UpdatedAt, then UpdateLastLogin's LastLogin,
\* UpdatedAt and its UpdateUser's UpdatedAt.
CreateOrUpdateUser(st, lst, userInfo, provider, failAt, sticky, tickAt) ==
  LET F(k) == Fails(k, failAt, sticky)
      T(k) == Clock(k, tickAt)
      Failed(err, st2, lst2) ==
        [err |-> err, user |-> NoUser, store |-> st2, list |-> lst2, ullErr |-> NoErr]
      Logged(wr, ull) ==
        [err |-> NoErr, user |-> wr.user, store |-> ull.store, list |-> wr.list,
         ullErr |-> ull.err]
      Written(wr, created) ==
        IF wr.err # NoErr
        THEN Failed(Errorf(IF created THEN "failed to create user: %v"
                                      ELSE "failed to update user: %v", wr.err.fmt),
                    wr.store, wr.list)
        ELSE Logged(wr, UpdateLastLogin(wr.store, wr.user.ID, T(3), T(4), T(5),
                                        F(4), F(5), F(6)))
      Updated(w) == [err |-> w.err, user |-> w.user, store |-> w.store, list |-> lst]
      Upsert(got, user) ==
        IF got.err # NoErr /\ got.err # Errorf("user not found: %s", userInfo.Sub)
        THEN Failed(Errorf("error checking existing user: %v", got.err.fmt), st, lst)
        ELSE IF got.user = NoUser
        THEN Written(CreateUser(st, lst, user, T(1), T(2), F(2), F(3)), TRUE)
        ELSE Written(Updated(UpdateUser(st, [user EXCEPT !.CreatedAt = got.user.CreatedAt,
                                                         !.IsActive = got.user.IsActive],
                                        T(2), F(2), F(3))), FALSE)
  IN IF ~UserManager
     THEN Failed(Errorf("user manager not initialized", ""), st, lst)
     ELSE Upsert(GetUser(st, userInfo.Sub, F(1)),
                 [ID |-> userInfo.Sub, Email |-> userInfo.Email, Name |-> userInfo.Name,
                  Picture |-> userInfo.Picture, Provider |-> provider,
                  CreatedAt |-> ZeroTime, UpdatedAt |-> ZeroTime, LastLogin |-> ZeroTime,
                  IsActive |-> FALSE])

\* ------------------------------------------------------- Authorization header
\* A header value is a sequence of atoms: " " is one space and every other atom
\* is a run of non-space characters; adjacent words are one longer word. "jwt" is
\* the compact serialisation of the token the request carries.
Atoms == {" ", "Bearer", "k1", "jwt"}

RECURSIVE SplitFrom(_, _, _)
SplitFrom(h, cur, acc) ==
  IF h = <<>> THEN Append(acc, cur)
  ELSE IF Head(h) = " " THEN SplitFrom(Tail(h), <<>>, Append(acc, cur))
  ELSE SplitFrom(Tail(h), Append(cur, Head(h)), acc)

\* strings.Split(s, " ")
Split(h) == SplitFrom(h, <<>>, <<>>)

\* strings.HasPrefix(s, "Bearer ")
HasBearerPrefix(h) == Len(h) >= 2 /\ h[1] = "Bearer" /\ h[2] = " "

\* The token string after the prefix parses as the carried token only when it
\* is exactly that token's serialisation.
ParseToken(tokenString, jwt) == IF tokenString = <<"jwt">> THEN jwt ELSE NoToken

\* validateAPIKeyAuth taking the key from the last part, however many there are.
validateAPIKeyAuthLastPart(header) ==
  LET Check(parts) ==
        IF Len(parts) < 2 \/ parts[1] # <<"Bearer">>
        THEN Errorf("invalid authorization header format", "")
        ELSE IF parts[Len(parts)] # cfg.APIKey THEN Errorf("invalid API key", "")
        ELSE NoErr
  IN IF header = <<>> THEN Errorf("missing authorization header", "")
     ELSE Check(Split(header))

validateAPIKeyAuth(header) ==
  LET Check(parts) ==
        IF Len(parts) # 2 \/ parts[1] # <<"Bearer">>
        THEN Errorf("invalid authorization header format", "")
        ELSE IF parts[2] # cfg.APIKey THEN Errorf("invalid API key", "")
        ELSE NoErr
  IN IF header = <<>> THEN Errorf("missing authorization header", "")
     ELSE Check(Split(header))

\* GetUserFromRequest returning the stored user whatever its IsActive.
GetUserFromRequestAnyUser(header, jwt, st, failGet) ==
  LET Rejected(err, n) == [err |-> err, user |-> NoUser, reads |-> n]
      Found(got) ==
        IF got.err # NoErr THEN Rejected(Errorf("user not found: %v", got.err.fmt), 1)
        ELSE [err |-> NoErr, user |-> got.user, reads |-> 1]
      Validated(v) ==
        IF v.err # NoErr THEN Rejected(Errorf("invalid JWT token: %v", v.err.arg), 0)
        ELSE Found(GetUser(st, v.claims.UserID, failGet))
  IN IF OIDCClient = NULL \/ ~OIDCClient.Initialized
     THEN Rejected(Errorf("OIDC not initialized", ""), 0)
     ELSE IF header = <<>> THEN Rejected(Errorf("no authorization header", ""), 0)
     ELSE IF ~HasBearerPrefix(header)
     THEN Rejected(Errorf("invalid authorization header format", ""), 0)
     ELSE Validated(ValidateJWT(ParseToken(SubSeq(header, 3, Len(header)), jwt), now))

\* GetUserFromRequest returning the profile carried by the token's claims.
GetUserFromRequestTrustsClaims(header, jwt, st, failGet) ==
  LET Rejected(err, n) == [err |-> err, user |-> NoUser, reads |-> n]
      Found(got, claims) ==
        IF got.err # NoErr THEN Rejected(Errorf("user not found: %v", got.err.fmt), 1)
        ELSE IF ~got.user.IsActive THEN Rejected(Errorf("user account is deactivated", ""), 1)
        ELSE [err |-> NoErr,
              user |-> [got.user EXCEPT !.Email = claims.Email, !.Name = claims.Name],
              reads |-> 1]
      Validated(v) ==
        IF v.err # NoErr THEN Rejected(Errorf("invalid JWT token: %v", v.err.arg), 0)
        ELSE Found(GetUser(st, v.claims.UserID, failGet), v.claims)
  IN IF OIDCClient = NULL \/ ~OIDCClient.Initialized
     THEN Rejected(Errorf("OIDC not initialized", ""), 0)
     ELSE IF header = <<>> THEN Rejected(Errorf("no authorization header", ""), 0)
     ELSE IF ~HasBearerPrefix(header)
     THEN Rejected(Errorf("invalid authorization header format", ""), 0)
     ELSE Validated(ValidateJWT(ParseToken(SubSeq(header, 3, Len(header)), jwt), now))

\* `reads` counts the UserStore lookups made.
GetUserFromRequest(header, jwt, st, failGet) ==
  LET Rejected(err, n) == [err |-> err, user |-> NoUser, reads |-> n]
      Found(got) ==
        IF got.err # NoErr THEN Rejected(Errorf("user not found: %v", got.err.fmt), 1)
        ELSE IF ~got.user.IsActive THEN Rejected(Errorf("user account is deactivated", ""), 1)
        ELSE [err |-> NoErr, user |-> got.user, reads |-> 1]
      Validated(v) ==
        IF v.err # NoErr THEN Rejected(Errorf("invalid JWT token: %v", v.err.arg), 0)
        ELSE Found(GetUser(st, v.claims.UserID, failGet))
  IN IF OIDCClient = NULL \/ ~OIDCClient.Initialized
     THEN Rejected(Errorf("OIDC not initialized", ""), 0)
     ELSE IF header = <<>> THEN Rejected(Errorf("no authorization header", ""), 0)
     ELSE IF ~HasBearerPrefix(header)
     THEN Rejected(Errorf("invalid authorization header format", ""), 0)
     ELSE Validated(ValidateJWT(ParseToken(SubSeq(header, 3, Len(header)), jwt), now))

\* The identity RequireAuth attaches in API-key mode; unset fields are zero values.
APIKeyUser ==
  [ID |-> "api_key_user", Email |-> "api@imageflow.local", Name |-> "API Key User",
   Picture |-> "", Provider |-> "", CreatedAt |-> ZeroTime, UpdatedAt |-> ZeroTime,
   LastLogin |-> ZeroTime, IsActive |-> FALSE]

\* RequireAuth without the return after the OIDC error response: next runs.
RequireAuthFallsThrough(header, jwt, st, failGet) ==
  LET Rejected(code, detail, n) ==
        [code |-> code, detail |-> detail, user |-> NoUser, next |-> FALSE, reads |-> n]
      Admitted(user, n) ==
        [code |-> "", detail |-> "", user |-> user, next |-> TRUE, reads |-> n]
      APIKey(err) ==
        IF err # NoErr THEN Rejected("ErrInvalidAPIKey", err.fmt, 0)
        ELSE Admitted(APIKeyUser, 0)
      OIDC(r) ==
        IF r.err # NoErr
        THEN [code |-> "ErrUnauthorized", detail |-> r.err.fmt, user |-> NoUser,
              next |-> TRUE, reads |-> r.reads]
        ELSE Admitted(r.user, r.reads)
  IN IF cfg.AuthType = AuthTypeAPIKey THEN APIKey(validateAPIKeyAuth(header))
     ELSE IF cfg.AuthType = AuthTypeOIDC THEN OIDC(GetUserFromRequest(header, jwt, st, failGet))
     ELSE Rejected("ErrServerError", "", 0)

\* RequireAuth whose switch treats every mode other than OIDC as API-key mode.
RequireAuthDefaultsToAPIKey(header, jwt, st, failGet) ==
  LET Rejected(code, detail, n) ==
        [code |-> code, detail |-> detail, user |-> NoUser, next |-> FALSE, reads |-> n]
      Admitted(user, n) ==
        [code |-> "", detail |-> "", user |-> user, next |-> TRUE, reads |-> n]
      APIKey(err) ==
        IF err # NoErr THEN Rejected("ErrInvalidAPIKey", err.fmt, 0)
        ELSE Admitted(APIKeyUser, 0)
      OIDC(r) ==
        IF r.err # NoErr THEN Rejected("ErrUnauthorized", r.err.fmt, r.reads)
        ELSE Admitted(r.user, r.reads)
  IN IF cfg.AuthType = AuthTypeOIDC THEN OIDC(GetUserFromRequest(header, jwt, st, failGet))
     ELSE APIKey(validateAPIKeyAuth(header))

\* The response of the gate: the error written, the identity attached to the
\* request context and whether the downstream handler ran.
RequireAuth(header, jwt, st, failGet) ==
  LET Rejected(code, detail, n) ==
        [code |-> code, detail |-> detail, user |-> NoUser, next |-> FALSE, reads |-> n]
      Admitted(user, n) ==
        [code |-> "", detail |-> "", user |-> user, next |-> TRUE, reads |-> n]
      APIKey(err) ==
        IF err # NoErr THEN Rejected("ErrInvalidAPIKey", err.fmt, 0)
        ELSE Admitted(APIKeyUser, 0)
      OIDC(r) ==
        IF r.err # NoErr THEN Rejected("ErrUnauthorized", r.err.fmt, r.reads)
        ELSE Admitted(r.user, r.reads)
  IN IF cfg.AuthType = AuthTypeAPIKey THEN APIKey(validateAPIKeyAuth(header))
     ELSE IF cfg.AuthType = AuthTypeOIDC THEN OIDC(GetUserFromRequest(header, jwt, st, failGet))
     ELSE Rejected("ErrServerError", "", 0)

\* ------------------------------------------------------------ HTTP handlers
\* A Set-Cookie of oidc_state in a response, or none.
NoSetCookie == [op |-> "none", value |-> NoCookie]
SetStateCookie(v) == [op |-> "set", value |-> v]
\* A response that leaves the state cookie in place.
KeepStateCookie == [op |-> "none", value |-> NoCookie]
ClearStateCookie == [op |-> "clear", value |-> NoCookie]

ClientReady == OIDCClient # NULL /\ OIDCClient.Initialized

\* An authorization URL that always carries the first state.
GetAuthURLStale(state) == IF ~OIDCClient.Initialized THEN NoCookie ELSE 1

\* o.Config.AuthCodeURL(state): the URL carries the state it is given.
GetAuthURL(state) == IF ~OIDCClient.Initialized THEN NoCookie ELSE state

\* OIDCLoginHandler without the mode check.
OIDCLoginHandlerAnyMode(state, randOK) ==
  IF ~ClientReady \/ ~randOK
  THEN [msg |-> "ErrServerError", cookieOp |-> NoSetCookie,
        urlState |-> NoCookie, bodyState |-> NoCookie]
  ELSE [msg |-> "", cookieOp |-> SetStateCookie(state),
        urlState |-> GetAuthURL(state), bodyState |-> state]

\* generateState draws 32 random bytes: the value is fresh, or rand.Read fails.
OIDCLoginHandler(state, randOK) ==
  IF cfg.AuthType # AuthTypeOIDC
  THEN [msg |-> "OIDC authentication not enabled", cookieOp |-> NoSetCookie,
        urlState |-> NoCookie, bodyState |-> NoCookie]
  ELSE IF ~ClientReady
  THEN [msg |-> "ErrServerError", cookieOp |-> NoSetCookie,
        urlState |-> NoCookie, bodyState |-> NoCookie]
  ELSE IF ~randOK
  THEN [msg |-> "ErrServerError", cookieOp |-> NoSetCookie,
        urlState |-> NoCookie, bodyState |-> NoCookie]
  ELSE IF GetAuthURL(state) = NoCookie
  THEN [msg |-> "ErrServerError", cookieOp |-> SetStateCookie(state),
        urlState |-> NoCookie, bodyState |-> NoCookie]
  ELSE [msg |-> "", cookieOp |-> SetStateCookie(state),
        urlState |-> GetAuthURL(state), bodyState |-> state]

\* A callback response that ends before CreateOrUpdateUser is called.
Reject(msg, step, cookieOp, exchanged) ==
  [msg |-> msg, step |-> step, cookieOp |-> cookieOp, exchanged |-> exchanged,
   upsert |-> FALSE, store |-> store, list |-> userList, token |-> NoToken,
   user |-> NoUser, expiresAt |-> ZeroTime, ullErr |-> NoErr]

\* The error each handler writes when a step after the state check fails.
FailSteps == {"exchange", "extract", "upsert", "jwt"}

GETFailMsg ==
  [step \in FailSteps |->
     CASE step = "exchange" -> "Failed to exchange code for token"
       [] step = "extract" -> "Failed to extract user info"
       [] step = "upsert" -> "Failed to create/update user"
       [] step = "jwt" -> "Failed to generate session token"]

POSTFailMsg == [step \in FailSteps |-> "ErrServerError"]

\* The steps both callback handlers run once the state cookie is cleared and a
\* code is in hand; failMsg is the handler's table of error messages.
\* time.Now() reads 6 and 7 are GenerateJWT's, read 8 the handler's expiresAt.
LoginSteps(code, env, failMsg) ==
  LET After(step, up, ullErr) ==
        [msg |-> failMsg[step], step |-> step, cookieOp |-> ClearStateCookie,
         exchanged |-> TRUE, upsert |-> TRUE, store |-> up.store, list |-> up.list,
         token |-> NoToken, user |-> NoUser, expiresAt |-> ZeroTime, ullErr |-> ullErr]
      Respond(up, jwt) ==
        IF jwt.err # NoErr THEN After("jwt", up, up.ullErr)
        ELSE [msg |-> "", step |-> "done", cookieOp |-> ClearStateCookie,
              exchanged |-> TRUE, upsert |-> TRUE, store |-> up.store, list |-> up.list,
              token |-> jwt.token, user |-> up.user,
              expiresAt |-> Clock(8, env.tickAt) + TokenTTL, ullErr |-> up.ullErr]
      Upserted(up) ==
        IF up.err # NoErr THEN After("upsert", up, NoErr)
        ELSE Respond(up, GenerateJWT(up.user, Clock(6, env.tickAt), Clock(7, env.tickAt)))
  IN IF ExchangeCodeForToken(code, env.exch) # NoErr
     THEN Reject(failMsg["exchange"], "exchange", ClearStateCookie, TRUE)
     ELSE IF ExtractUserInfo(env.extract) # NoErr
     THEN Reject(failMsg["extract"], "extract", ClearStateCookie, TRUE)
     ELSE Upserted(CreateOrUpdateUser(store, userList, env.info, "oidc",
                                      env.failAt, env.sticky, env.tickAt))

\* req: [cookie, state, code] of the query string and the Cookie header; an
\* absent query parameter reads as "" (state 0, code "").
OIDCCallbackHandler(req, env) ==
  IF cfg.AuthType # AuthTypeOIDC
  THEN Reject("OIDC auth not enabled", "mode", NoSetCookie, FALSE)
  ELSE IF ~ClientReady
  THEN Reject("OIDC not configured", "client", NoSetCookie, FALSE)
  ELSE IF req.cookie = NoCookie \/ req.cookie # req.state
  THEN Reject("Invalid state parameter", "state", NoSetCookie, FALSE)
  ELSE IF req.code = ""
  THEN Reject("No authorization code received", "code", ClearStateCookie, FALSE)
  ELSE LoginSteps(req.code, env, GETFailMsg)

\* req: [method, bodyOK, cookie, state, code]; code and state are the JSON body's.
OIDCCallbackAPIHandler(req, env) ==
  IF req.method # "POST"
  THEN Reject("Method not allowed", "method", NoSetCookie, FALSE)
  ELSE IF cfg.AuthType # AuthTypeOIDC
  THEN Reject("OIDC authentication not enabled", "mode", NoSetCookie, FALSE)
  ELSE IF ~ClientReady
  THEN Reject("ErrServerError", "client", NoSetCookie, FALSE)
  ELSE IF ~req.bodyOK
  THEN Reject("Invalid request body", "body", NoSetCookie, FALSE)
  ELSE IF req.code = ""
  THEN Reject("Authorization code is required", "code-param", NoSetCookie, FALSE)
  ELSE IF req.state = 0
  THEN Reject("State parameter is required", "state-param", NoSetCookie, FALSE)
  ELSE IF req.cookie = NoCookie
  THEN Reject("Missing state cookie", "state", NoSetCookie, FALSE)
  ELSE IF req.cookie # req.state
  THEN Reject("Invalid state parameter", "state", NoSetCookie, FALSE)
  ELSE LoginSteps(req.code, env, POSTFailMsg)

\* ---------------------------------------------------------------- inputs
Forged == MaxLogins + 1        \* a state value generateState never returned

Codes == {"", "c1"}

GETReqs(Cookies, States) == [cookie : Cookies, state : States, code : Codes]

POSTReqs(Cookies, States) ==
  [method : {"POST"}, bodyOK : {TRUE}, cookie : Cookies, state : States, code : Codes]
  \cup [method : {"GET"}, bodyOK : {TRUE}, cookie : Cookies, state : {0}, code : {""}]
  \cup [method : {"POST"}, bodyOK : {FALSE}, cookie : Cookies, state : {0}, code : {""}]

Infos(Subs, Profs) ==
  {[Sub |-> u, Email |-> p.Email, Name |-> p.Name, Picture |-> p.Picture] :
     u \in Subs, p \in Profs}

\* The provider's answers and the faults of one callback.
FailEnv(info) ==
  [exch |-> FALSE, extract |-> FALSE, info |-> info, failAt |-> 0, sticky |-> FALSE,
   tickAt |-> 0]

\* `sticky` marks a cancelled request context: every command from failAt on fails.
Envs(Subs, Profs, FailAts, TickAts) ==
  {FailEnv(i) : i \in {CHOOSE i \in Infos(Subs, Profs) : TRUE}}
  \cup {[FailEnv(i) EXCEPT !.exch = TRUE] : i \in {CHOOSE i \in Infos(Subs, Profs) : TRUE}}
  \cup {[exch |-> TRUE, extract |-> TRUE, info |-> x[1], failAt |-> x[2], sticky |-> x[3],
         tickAt |-> x[4]] :
          x \in {y \in Infos(Subs, Profs) \X FailAts \X BOOLEAN \X TickAts :
                   y[3] => y[2] # 0}}

\* Header values of at most n atoms.
RECURSIVE Headers(_)
Headers(n) ==
  IF n = 0 THEN {<<>>}
  ELSE Headers(n - 1) \cup {Append(h, a) : h \in {x \in Headers(n - 1) : Len(x) = n - 1}, a \in Atoms}

\* Tokens a client can present without the signing key, and the one it kept.
ForgedTokens ==
  {[alg |-> a[1], sig |-> a[2], UserID |-> u, Email |-> "e1", Name |-> "n1",
    Provider |-> "oidc", ExpiresAt |-> Trunc(now) + TokenTTL, IssuedAt |-> Trunc(now),
    Issuer |-> "ImageFlow", Subject |-> u] :
      u \in Users,
      a \in {<<"HS256", AttackerKey>>, <<"none", SelfSigned>>, <<"RS256", SelfSigned>>}}

Tampered ==
  IF held = NoToken THEN {}
  ELSE {[held EXCEPT !.ExpiresAt = @ + TokenTTL, !.sig = AttackerKey]}

Presentable == {held} \cup ForgedTokens \cup Tampered

OIDCHeaders ==
  {<<>>, <<"Bearer", " ", "jwt">>, <<"Bearer", "jwt">>, <<"jwt">>,
   <<"Bearer", " ", " ", "jwt">>, <<"Bearer", " ", "k1">>}

\* ---------------------------------------------------------------- actions
AfterStateCheck == {"code", "exchange", "extract", "upsert", "jwt", "done"}

\* Time passes between requests: a tick, or as long as leaves a token issued
\* at the start one tick before its expiry, or exactly at it.
Tick ==
  \E d \in {1, TokenTTL - TicksPerSecond, TokenTTL - TicksPerSecond + 1} :
    /\ nTicks < MaxTicks
    /\ now' = now + d
    /\ nTicks' = nTicks + 1
    /\ last' = [kind |-> "tick"]
    /\ UNCHANGED <<fs, client, procs, cfg, OIDCClient, UserManager, store, userList, jar, nStates,
                   held, consumed, passed, deactivated>>

Login ==
  \E viaBrowser \in BOOLEAN, randOK \in BOOLEAN :
    \E state \in {nStates + 1} : \E r \in {OIDCLoginHandler(state, randOK)} :
    LET set == r.cookieOp.op = "set"
    IN /\ nStates < MaxLogins
       /\ nStates' = IF set THEN state ELSE nStates
       /\ jar' = IF viaBrowser /\ set THEN r.cookieOp.value ELSE jar
       /\ last' = [kind |-> "login", viaBrowser |-> viaBrowser, resp |-> r]
       /\ UNCHANGED <<fs, client, procs, cfg, OIDCClient, UserManager, store, userList, now, nTicks,
                      held, consumed, passed, deactivated>>

\* The same cookie, state and code sent to the other callback surface.
AsPOST(req) ==
  [method |-> "POST", bodyOK |-> TRUE, cookie |-> req.cookie, state |-> req.state,
   code |-> req.code]

AsGET(req) == [cookie |-> req.cookie, state |-> req.state, code |-> req.code]

\* What a callback leaves behind: the response's effects on the store, on the
\* browser's cookie when the request came from it, and the token if the client
\* keeps it. `twin` is what the other surface answers to the same inputs.
CallbackEffects(kind, req, viaBrowser, env, keep, r, twin) ==
  /\ env.tickAt # 0 => nTicks < MaxTicks
  /\ store' = r.store
  /\ userList' = r.list
  /\ now' = Clock(NReads, env.tickAt)
  /\ nTicks' = IF env.tickAt # 0 THEN nTicks + 1 ELSE nTicks
  /\ jar' = IF viaBrowser /\ r.cookieOp.op = "clear" THEN NoCookie
            ELSE IF viaBrowser /\ r.cookieOp.op = "set" THEN r.cookieOp.value
            ELSE jar
  /\ consumed' = IF r.step = "done" /\ req.state \in 1..nStates
                 THEN consumed \cup {req.state} ELSE consumed
  /\ passed' = IF viaBrowser /\ r.step \in AfterStateCheck /\ req.state \in 1..nStates
               THEN passed \cup {req.state} ELSE passed
  /\ held' = IF keep THEN r.token ELSE held
  /\ last' = [kind |-> kind, req |-> req, viaBrowser |-> viaBrowser,
              reused |-> req.state \in consumed, again |-> req.state \in passed,
              env |-> env,
              twin |-> [step |-> twin.step, cookieOp |-> twin.cookieOp,
                        changed |-> (twin.store # store \/ twin.list # userList),
                        token |-> twin.token],
              msg |-> r.msg, step |-> r.step, cookieOp |-> r.cookieOp,
              exchanged |-> r.exchanged, upsert |-> r.upsert,
              changed |-> (r.store # store \/ r.list # userList),
              token |-> r.token, user |-> r.user, expiresAt |-> r.expiresAt,
              ullErr |-> r.ullErr,
              sub |-> IF r.upsert THEN env.info.Sub ELSE "",
              info |-> IF r.upsert THEN env.info ELSE NoUser,
              before |-> IF r.upsert THEN store[env.info.Sub] ELSE Nil,
              inList |-> r.upsert /\ env.info.Sub \in userList,
              at |-> now]
  /\ UNCHANGED <<fs, client, procs, cfg, OIDCClient, UserManager, nStates, deactivated>>

CallbackGET(Reqs, EnvSet, Keeps) ==
  \E viaBrowser \in BOOLEAN, req \in Reqs :
    /\ viaBrowser => req.cookie = jar
    /\ \E e0 \in {CHOOSE e \in EnvSet : ~e.exch} :
         \E env \in (IF OIDCCallbackHandler(req, e0).step = "exchange"
                      THEN EnvSet ELSE {e0}) :
           \E r \in {OIDCCallbackHandler(req, env)} :
             \E keep \in (IF r.token # NoToken THEN Keeps ELSE {FALSE}) :
               CallbackEffects("callback-get", req, viaBrowser, env, keep, r,
                               OIDCCallbackAPIHandler(AsPOST(req), env))

CallbackPOST(Reqs, EnvSet, Keeps) ==
  \E viaBrowser \in BOOLEAN, req \in Reqs :
    /\ viaBrowser => req.cookie = jar
    /\ \E e0 \in {CHOOSE e \in EnvSet : ~e.exch} :
         \E env \in (IF OIDCCallbackAPIHandler(req, e0).step = "exchange"
                      THEN EnvSet ELSE {e0}) :
           \E r \in {OIDCCallbackAPIHandler(req, env)} :
             \E keep \in (IF r.token # NoToken THEN Keeps ELSE {FALSE}) :
               CallbackEffects("callback-post", req, viaBrowser, env, keep, r,
                               OIDCCallbackHandler(AsGET(req), env))

\* A gate that also stamps the admitted user's last login.
AuthenticateTouchesLastLogin(HeaderSet, TokenSet) ==
  \E header \in HeaderSet :
    \E jwt \in (IF header = <<"Bearer", " ", "jwt">> THEN TokenSet
                ELSE IF \E i \in 1..Len(header) : header[i] = "jwt" THEN {held}
                ELSE {NoToken}) :
      \E r \in {RequireAuth(header, jwt, store, FALSE)} :
        /\ last' = [kind |-> "auth", header |-> header, jwt |-> jwt, failGet |-> FALSE,
                    resp |-> r, at |-> now]
        /\ store' = IF r.next /\ r.reads > 0
                    THEN UpdateLastLogin(store, r.user.ID, now, now, now,
                                         FALSE, FALSE, FALSE).store
                    ELSE store
        /\ UNCHANGED <<fs, client, procs, cfg, OIDCClient, UserManager, userList, now, nTicks, jar,
                       nStates, held, consumed, passed, deactivated>>

Authenticate(HeaderSet, TokenSet) ==
  \E header \in HeaderSet :
    \E jwt \in (IF header = <<"Bearer", " ", "jwt">> THEN TokenSet
                ELSE IF \E i \in 1..Len(header) : header[i] = "jwt" THEN {held}
                ELSE {NoToken}) :
      \E failGet \in (IF RequireAuth(header, jwt, store, FALSE).reads > 0
                      THEN BOOLEAN ELSE {FALSE}) :
        /\ last' = [kind |-> "auth", header |-> header, jwt |-> jwt, failGet |-> failGet,
                    resp |-> RequireAuth(header, jwt, store, failGet), at |-> now]
        /\ UNCHANGED <<fs, client, procs, cfg, OIDCClient, UserManager, store, userList, now, nTicks, jar,
                       nStates, held, consumed, passed, deactivated>>

\* An administrator's DeactivateUser(userID); Redis commands Get, Get, Set.
Deactivate ==
  \E u \in Users, failAt \in 0..3 :
    \E r \in {DeactivateUser(store, u, now, now, failAt = 1, failAt = 2, failAt = 3)} :
       /\ UserManager
       /\ store' = r.store
       /\ deactivated' = IF r.err = NoErr THEN deactivated \cup {u} ELSE deactivated
       /\ last' = [kind |-> "deactivate", user |-> u, err |-> r.err]
       /\ UNCHANGED <<fs, client, procs, cfg, OIDCClient, UserManager, userList, now, nTicks, jar,
                      nStates, held, consumed, passed>>

\* A logout that revokes the session by deactivating the token's user.
LogoutDeactivates ==
  /\ last' = [kind |-> "logout",
              accepted |-> RequireAuth(<<"Bearer", " ", "jwt">>, held, store, FALSE).next]
  /\ store' = IF held = NoToken THEN store
              ELSE DeactivateUser(store, held.UserID, now, now, FALSE, FALSE, FALSE).store
  /\ UNCHANGED <<fs, client, procs, cfg, OIDCClient, UserManager, userList, now, nTicks, jar,
                 nStates, held, consumed, passed, deactivated>>

\* LogoutHandler: answers "Logged out successfully" to any request. `accepted`
\* notes whether the gate admitted the client's token when the request came.
Logout ==
  /\ last' = [kind |-> "logout",
              accepted |-> RequireAuth(<<"Bearer", " ", "jwt">>, held, store, FALSE).next]
  /\ UNCHANGED <<fs, client, procs, cfg, OIDCClient, UserManager, store, userList, now, nTicks, jar,
                 nStates, held, consumed, passed, deactivated>>

\* ------------------------------------------------------------ specifications
ServerKey == "server-key"

InitWith(mode, clients, managers) ==
  /\ cfg \in [AuthType : {mode}, APIKey : {<<"k1">>, <<>>}]
  /\ OIDCClient \in clients
  /\ UserManager \in managers
  /\ store = [u \in Users |-> Nil]
  /\ userList = {}
  /\ now = 2 * TicksPerSecond - 1
  /\ nTicks = 0
  /\ jar = NoCookie
  /\ nStates = 0
  /\ held = NoToken
  /\ consumed = {}
  /\ passed = {}
  /\ deactivated = {}
  /\ fs = NoFS
  /\ client = NoClient
  /\ procs = NoProcs
  /\ last = [kind |-> "init"]

Ready == [Initialized |-> TRUE, JWTSignKey |-> ServerKey, nil |-> FALSE]

\* API-key mode: InitOIDCProvider and InitUserStore return before they set
\* OIDCClient and UserManager.
InitAPIKey == InitWith(AuthTypeAPIKey, {NULL}, {FALSE})

OneProfile == {CHOOSE p \in Profiles : p.Picture # ""}

NextAPIKey ==
  \/ Authenticate(Headers(MaxHeaderLen), {NoToken})
  \/ Login
  \/ CallbackGET(GETReqs({NoCookie, Forged}, {Forged}), Envs({"u1"}, OneProfile, {0}, {0}), {FALSE})
  \/ CallbackPOST(POSTReqs({NoCookie, Forged}, {Forged}), Envs({"u1"}, OneProfile, {0}, {0}), {FALSE})

SpecAPIKey == InitAPIKey /\ [][NextAPIKey]_vars

\* OIDC mode, the login protocol: the state cookie between login and callback.
InitLogin == InitWith(AuthTypeOIDC, {NULL, Ready}, {TRUE})

LoginCookies == {NoCookie} \cup (1..nStates)
LoginStates == {0} \cup (1..nStates)

NextLogin ==
  \/ Login
  \/ CallbackGET(GETReqs(LoginCookies, LoginStates),
                 Envs({"u1"}, OneProfile, {0, 1}, {0}), {FALSE})
  \/ CallbackPOST(POSTReqs(LoginCookies, LoginStates),
                  Envs({"u1"}, OneProfile, {0, 1}, {0}), {FALSE})

SpecLogin == InitLogin /\ [][NextLogin]_vars

\* OIDC mode, sessions: tokens, the gate and deactivation.
InitSession == InitWith(AuthTypeOIDC, {Ready}, {TRUE})

NextSession ==
  \/ Tick
  \/ CallbackGET(GETReqs({Forged}, {Forged}), Envs({"u1"}, Profiles, {0}, {0, 7}), BOOLEAN)
  \/ Deactivate
  \/ Authenticate(OIDCHeaders, Presentable)
  \/ Logout

SpecSession == InitSession /\ [][NextSession]_vars

\* OIDC mode, the user store under faults: the login upsert and deactivation.
InitStore == InitWith(AuthTypeOIDC, {Ready}, {TRUE, FALSE})

NextStore ==
  \/ CallbackPOST(POSTReqs({Forged}, {Forged}), Envs({"u1"}, Profiles, 0..NOps, 0..5), {FALSE})
  \/ Deactivate

SpecStore == InitStore /\ [][NextStore]_vars

\* A mode that is neither constant: unset, or misspelt. InitOIDCProvider and
\* InitUserStore return early only for api_key, so both globals are set.
UnknownModes == {"", "OIDC"}

InitUnknown == \E mode \in UnknownModes : InitWith(mode, {Ready}, {TRUE})

NextUnknown ==
  \/ Authenticate(Headers(MaxHeaderLen), Presentable)
  \/ Login
  \/ CallbackGET(GETReqs({NoCookie, Forged}, {Forged}), Envs({"u1"}, OneProfile, {0}, {0}), {FALSE})
  \/ CallbackPOST(POSTReqs({NoCookie, Forged}, {Forged}), Envs({"u1"}, OneProfile, {0}, {0}), {FALSE})

SpecUnknown == InitUnknown /\ [][NextUnknown]_vars

\* ------------------------------------------------------------ storage paths
\* A string is a sequence of atoms: "/" is the path separator, "." a dot, and
\* every other atom a run of other characters.
PathChars == {"a", ".", "/"}

RECURSIVE Strs(_)
Strs(n) ==
  IF n = 0 THEN {<<>>}
  ELSE Strs(n - 1) \cup {Append(s, c) : s \in {x \in Strs(n - 1) : Len(x) = n - 1}, c \in PathChars}

\* The elements of a path between its separators.
RECURSIVE SegmentsFrom(_, _, _)
SegmentsFrom(p, cur, acc) ==
  IF p = <<>> THEN Append(acc, cur)
  ELSE IF Head(p) = "/" THEN SegmentsFrom(Tail(p), <<>>, Append(acc, cur))
  ELSE SegmentsFrom(Tail(p), Append(cur, Head(p)), acc)

\* strings.Join(elems, "/")
RECURSIVE Slashed(_)
Slashed(elems) ==
  IF elems = <<>> THEN <<>>
  ELSE IF Len(elems) = 1 THEN elems[1]
  ELSE elems[1] \o <<"/">> \o Slashed(Tail(elems))

\* filepath.Clean's pass over the elements: empty and "." elements are dropped,
\* ".." removes the element before it, is dropped at the root, and is kept at
\* the start of a relative path.
RECURSIVE CleanSegments(_, _, _)
CleanSegments(segs, rooted, kept) ==
  IF segs = <<>> THEN kept
  ELSE IF Head(segs) \in {<<>>, <<".">>} THEN CleanSegments(Tail(segs), rooted, kept)
  ELSE IF Head(segs) # <<".", ".">>
  THEN CleanSegments(Tail(segs), rooted, Append(kept, Head(segs)))
  ELSE IF kept # <<>> /\ kept[Len(kept)] # <<".", ".">>
  THEN CleanSegments(Tail(segs), rooted, SubSeq(kept, 1, Len(kept) - 1))
  ELSE IF rooted THEN CleanSegments(Tail(segs), rooted, kept)
  ELSE CleanSegments(Tail(segs), rooted, Append(kept, Head(segs)))

\* filepath.Clean, with "/" as the separator.
Clean(p) ==
  LET Rooted(body) == <<"/">> \o body
      Relative(body) == IF body = <<>> THEN <<".">> ELSE body
  IN IF p = <<>> THEN <<".">>
     ELSE IF p[1] = "/" THEN Rooted(Slashed(CleanSegments(SegmentsFrom(p, <<>>, <<>>), TRUE, <<>>)))
     ELSE Relative(Slashed(CleanSegments(SegmentsFrom(p, <<>>, <<>>), FALSE, <<>>)))

\* filepath.Join: empty elements are ignored and the result is cleaned; with no
\* non-empty element the result is empty.
Join(elems) ==
  LET NonEmpty(e) == e # <<>>
      Joined(es) == IF es = <<>> THEN <<>> ELSE Clean(Slashed(es))
  IN Joined(SelectSeq(elems, NonEmpty))

\* usp: [userID, AuthType], the fields of UserStoragePaths the paths depend on.
GetOriginalPath(usp, filename, orientation) ==
  IF usp.AuthType = AuthTypeAPIKey THEN Join(<< <<"original">>, orientation, filename >>)
  ELSE Join(<< <<"users">>, usp.userID, <<"original">>, orientation, filename >>)

GetWebPPath(usp, filename, orientation) ==
  IF usp.AuthType = AuthTypeAPIKey
  THEN Join(<< orientation, <<"webp">>, filename \o <<".", "webp">> >>)
  ELSE Join(<< <<"users">>, usp.userID, orientation, <<"webp">>, filename \o <<".", "webp">> >>)

GetAVIFPath(usp, filename, orientation) ==
  IF usp.AuthType = AuthTypeAPIKey
  THEN Join(<< orientation, <<"avif">>, filename \o <<".", "avif">> >>)
  ELSE Join(<< <<"users">>, usp.userID, orientation, <<"avif">>, filename \o <<".", "avif">> >>)

GetGIFPath(usp, filename) ==
  IF usp.AuthType = AuthTypeAPIKey THEN Join(<< <<"gif">>, filename >>)
  ELSE Join(<< <<"users">>, usp.userID, <<"gif">>, filename >>)

\* GenerateStoragePaths keeping the format's own name as the extension.
GenerateStoragePathsKeepsFormat(usp, imageID, format, orientation) ==
  LET ext == IF format = "jpeg" THEN <<".", "jpg">> ELSE <<".", format>>
  IN IF format = "gif"
     THEN [original |-> GetGIFPath(usp, imageID \o <<".", "gif">>),
           webp |-> GetGIFPath(usp, imageID \o <<".", "gif">>),
           avif |-> GetGIFPath(usp, imageID \o <<".", "gif">>)]
     ELSE [original |-> GetOriginalPath(usp, imageID \o ext, orientation),
           webp |-> GetWebPPath(usp, imageID, orientation),
           avif |-> GetAVIFPath(usp, imageID, orientation)]

GenerateStoragePaths(usp, imageID, format, orientation) ==
  LET ext == CASE format \in {"jpeg", "jpg"} -> <<".", "jpg">>
               [] format = "png" -> <<".", "png">>
               [] format = "webp" -> <<".", "webp">>
               [] OTHER -> <<".", "jpg">>
  IN IF format = "gif"
     THEN [original |-> GetGIFPath(usp, imageID \o <<".", "gif">>),
           webp |-> GetGIFPath(usp, imageID \o <<".", "gif">>),
           avif |-> GetGIFPath(usp, imageID \o <<".", "gif">>)]
     ELSE [original |-> GetOriginalPath(usp, imageID \o ext, orientation),
           webp |-> GetWebPPath(usp, imageID, orientation),
           avif |-> GetAVIFPath(usp, imageID, orientation)]

\* GenerateLegacyStoragePaths falling back to .png for a format it does not
\* know.
GenerateLegacyStoragePathsPngFallback(imageID, format, orientation) ==
  LET ext == CASE format \in {"jpeg", "jpg"} -> <<".", "jpg">>
               [] format = "webp" -> <<".", "webp">>
               [] OTHER -> <<".", "png">>
  IN IF format = "gif"
     THEN [original |-> Join(<< <<"gif">>, imageID \o <<".", "gif">> >>),
           webp |-> Join(<< <<"gif">>, imageID \o <<".", "gif">> >>),
           avif |-> Join(<< <<"gif">>, imageID \o <<".", "gif">> >>)]
     ELSE [original |-> Join(<< <<"original">>, orientation, imageID \o ext >>),
           webp |-> Join(<< orientation, <<"webp">>, imageID \o <<".", "webp">> >>),
           avif |-> Join(<< orientation, <<"avif">>, imageID \o <<".", "avif">> >>)]

\* The package-level function kept for callers that have no resolver.
GenerateLegacyStoragePaths(imageID, format, orientation) ==
  LET ext == CASE format \in {"jpeg", "jpg"} -> <<".", "jpg">>
               [] format = "png" -> <<".", "png">>
               [] format = "webp" -> <<".", "webp">>
               [] OTHER -> <<".", "jpg">>
  IN IF format = "gif"
     THEN [original |-> Join(<< <<"gif">>, imageID \o <<".", "gif">> >>),
           webp |-> Join(<< <<"gif">>, imageID \o <<".", "gif">> >>),
           avif |-> Join(<< <<"gif">>, imageID \o <<".", "gif">> >>)]
     ELSE [original |-> Join(<< <<"original">>, orientation, imageID \o ext >>),
           webp |-> Join(<< orientation, <<"webp">>, imageID \o <<".", "webp">> >>),
           avif |-> Join(<< orientation, <<"avif">>, imageID \o <<".", "avif">> >>)]

\* The resolver's inputs.
Formats == {"jpeg", "jpg", "png", "webp", "gif", "bmp", ""}

Orientations ==
  {<<"landscape">>, <<"portrait">>, <<>>, <<".">>, <<".", ".">>, <<"a", "/", "a">>}

\* A handler builds a resolver for the user of the request at hand and asks it
\* for the paths of the request's image.
ResolvePaths ==
  /\ last.kind = "paths-request"
  /\ last' = [kind |-> "paths", userID |-> last.userID, imageID |-> last.imageID,
              format |-> last.format, orientation |-> last.orientation,
              paths |-> GenerateStoragePaths([userID |-> last.userID,
                                              AuthType |-> cfg.AuthType],
                                             last.imageID, last.format, last.orientation)]
  /\ UNCHANGED <<fs, client, procs, cfg, OIDCClient, UserManager, store, userList, now, nTicks,
                 jar, nStates, held, consumed, passed, deactivated>>

\* cfg.ImageBasePath as the start script sets it:
\* LOCAL_STORAGE_PATH=./static/images
ImageBasePaths == {<<".", "/", "static", "/", "images">>}

\* Either mode, with the request whose paths are wanted.
InitPaths ==
  /\ cfg \in [AuthType : {AuthTypeAPIKey, AuthTypeOIDC}, APIKey : {<<"k1">>},
              ImageBasePath : ImageBasePaths]
  /\ OIDCClient = IF cfg.AuthType = AuthTypeOIDC THEN Ready ELSE NULL
  /\ UserManager = (cfg.AuthType = AuthTypeOIDC)
  /\ store = [u \in Users |-> Nil]
  /\ userList = {}
  /\ now = 2 * TicksPerSecond - 1
  /\ nTicks = 0
  /\ jar = NoCookie
  /\ nStates = 0
  /\ held = NoToken
  /\ consumed = {}
  /\ passed = {}
  /\ deactivated = {}
  /\ fs = NoFS
  /\ client = NoClient
  /\ procs = NoProcs
  /\ last \in [kind : {"paths-request"}, userID : Strs(MaxPathLen),
               imageID : Strs(MaxPathLen), format : Formats, orientation : Orientations]

NextPaths == ResolvePaths

SpecPaths == InitPaths /\ [][NextPaths]_vars

\* ---------------------------------------------------------- user directories
\* The index of the last separator of p, 0 when it has none.
RECURSIVE LastSep(_)
LastSep(p) ==
  IF p = <<>> THEN 0 ELSE IF p[Len(p)] = "/" THEN Len(p) ELSE LastSep(SubSeq(p, 1, Len(p) - 1))

\* filepath.Dir: the path up to and including its last separator, cleaned.
Dir(p) == Clean(SubSeq(p, 1, LastSep(p)))

\* GetUserDirectories listing the gif directory without the user's base path.
GetUserDirectoriesSharedGif(usp) ==
  LET Under(base) ==
        << Join(<<base, <<"original">>, <<"landscape">> >>),
           Join(<<base, <<"original">>, <<"portrait">> >>),
           Join(<<base, <<"landscape">>, <<"webp">> >>),
           Join(<<base, <<"landscape">>, <<"avif">> >>),
           Join(<<base, <<"portrait">>, <<"webp">> >>),
           Join(<<base, <<"portrait">>, <<"avif">> >>),
           Join(<<usp.ImageBasePath, <<"gif">> >>) >>
  IN IF usp.AuthType = AuthTypeAPIKey THEN Under(usp.ImageBasePath)
     ELSE Under(Join(<<usp.ImageBasePath, <<"users">>, usp.userID>>))

\* usp: [userID, AuthType, ImageBasePath].
GetUserDirectories(usp) ==
  LET Under(base) ==
        << Join(<<base, <<"original">>, <<"landscape">> >>),
           Join(<<base, <<"original">>, <<"portrait">> >>),
           Join(<<base, <<"landscape">>, <<"webp">> >>),
           Join(<<base, <<"landscape">>, <<"avif">> >>),
           Join(<<base, <<"portrait">>, <<"webp">> >>),
           Join(<<base, <<"portrait">>, <<"avif">> >>),
           Join(<<base, <<"gif">> >>) >>
  IN IF usp.AuthType = AuthTypeAPIKey THEN Under(usp.ImageBasePath)
     ELSE Under(Join(<<usp.ImageBasePath, <<"users">>, usp.userID>>))

\* os.Stat finds a directory at p: one that was created, the working
\* directory, the root, or a parent of the working directory.
IsDir(f, p) ==
  \/ p \in f.dirs
  \/ p \in {<<".">>, <<"/">>}
  \/ (Len(p) >= 2 /\ SubSeq(p, Len(p) - 1, Len(p)) = <<".", ".">>
        /\ (Len(p) = 2 \/ p[Len(p) - 2] = "/"))

\* The paths os.MkdirAll visits for p, outermost first: p's parents as far as
\* p has separators after its first character, then p.
RECURSIVE Lineage(_)
Lineage(p) ==
  IF LastSep(p) <= 1 THEN <<p>>
  ELSE Append(Lineage(SubSeq(p, 1, LastSep(p) - 1)), p)

\* os.MkdirAll that, like os.Mkdir, takes an existing directory at p for an
\* error.
MkdirAllExclusive(f, p, fail) ==
  IF IsDir(f, p) THEN [err |-> Errorf("mkdir %s: %v", "file exists"), fs |-> f, fail |-> 0]
  ELSE [err |-> NoErr,
        fs |-> [f EXCEPT !.dirs = @ \cup {Lineage(p)[i] : i \in 1..Len(Lineage(p))}],
        fail |-> 0]

\* os.MkdirAll(p). A directory at p: nothing to do. A regular file at p or at
\* one of its parents: ENOTDIR, nothing created. Otherwise the missing
\* directories are made outermost first; fail > 0 says that the fail-th Mkdir
\* from here on is refused by the system (permissions, a full disk), and the
\* result carries what is left of that count.
MkdirAll(f, p, fail) ==
  LET Missing(q) == ~IsDir(f, q)
      Made(missing, n) == {missing[i] : i \in 1..n}
      Making(missing) ==
        IF fail = 0 \/ fail > Len(missing)
        THEN [err |-> NoErr,
              fs |-> [f EXCEPT !.dirs = @ \cup Made(missing, Len(missing))],
              fail |-> IF fail = 0 THEN 0 ELSE fail - Len(missing)]
        ELSE [err |-> Errorf("mkdir %s: %v", "refused"),
              fs |-> [f EXCEPT !.dirs = @ \cup Made(missing, fail - 1)],
              fail |-> 0]
  IN IF IsDir(f, p) THEN [err |-> NoErr, fs |-> f, fail |-> fail]
     ELSE IF \E i \in 1..Len(Lineage(p)) : Lineage(p)[i] \in f.files
     THEN [err |-> Errorf("mkdir %s: %v", "not a directory"), fs |-> f, fail |-> fail]
     ELSE Making(SelectSeq(Lineage(p), Missing))

\* The loop of EnsureUserDirectories over the directories still to ensure.
RECURSIVE EnsureFrom(_, _, _)
EnsureFrom(f, dirs, fail) ==
  LET After(r) ==
        IF r.err # NoErr
        THEN [err |-> Errorf("failed to create directory %s: %v", r.err.arg), fs |-> r.fs]
        ELSE EnsureFrom(r.fs, Tail(dirs), r.fail)
  IN IF dirs = <<>> THEN [err |-> NoErr, fs |-> f]
     ELSE After(MkdirAll(f, Head(dirs), fail))

EnsureUserDirectories(f, usp, fail) == EnsureFrom(f, GetUserDirectories(usp), fail)

\* The users whose directories are ensured.
DirUsers == {<<"u1">>, <<".", ".">>}

\* The resolver of the deployment for a user.
Resolver(userID) ==
  [userID |-> userID, AuthType |-> cfg.AuthType, ImageBasePath |-> cfg.ImageBasePath]

\* A handler ensures the directories of the request's user. The system may
\* refuse any one of the Mkdir calls this takes.
EnsureDirectories ==
  \E userID \in DirUsers :
    \E fail \in 0..Cardinality(EnsureUserDirectories(fs, Resolver(userID), 0).fs.dirs \ fs.dirs) :
      \E r \in {EnsureUserDirectories(fs, Resolver(userID), fail)} :
        /\ fs' = r.fs
        /\ last' = [kind |-> "ensure", userID |-> userID, err |-> r.err,
                    had |-> \A i \in 1..7 : IsDir(fs, GetUserDirectories(Resolver(userID))[i]),
                    same |-> r.fs = fs]
        /\ UNCHANGED <<client, procs, cfg, OIDCClient, UserManager, store, userList, now,
                       nTicks, jar, nStates, held, consumed, passed, deactivated>>

\* The environment: a regular file appears in an existing directory, under the
\* name of a directory of some user's manifest. One such file is enough.
FileAppears ==
  \E userID \in DirUsers, i \in 1..7 :
    \E p \in {GetUserDirectories(Resolver(userID))[i]} :
      /\ fs.files = {}
      /\ ~IsDir(fs, p)
      /\ IsDir(fs, Dir(p))
      /\ fs' = [fs EXCEPT !.files = {p}]
      /\ last' = [kind |-> "file-appears", path |-> p]
      /\ UNCHANGED <<client, procs, cfg, OIDCClient, UserManager, store, userList, now,
                     nTicks, jar, nStates, held, consumed, passed, deactivated>>

\* Either mode, with nothing created under the image base path yet.
InitDirs ==
  /\ cfg \in [AuthType : {AuthTypeAPIKey, AuthTypeOIDC}, APIKey : {<<"k1">>},
              ImageBasePath : ImageBasePaths]
  /\ OIDCClient = IF cfg.AuthType = AuthTypeOIDC THEN Ready ELSE NULL
  /\ UserManager = (cfg.AuthType = AuthTypeOIDC)
  /\ store = [u \in Users |-> Nil]
  /\ userList = {}
  /\ now = 2 * TicksPerSecond - 1
  /\ nTicks = 0
  /\ jar = NoCookie
  /\ nStates = 0
  /\ held = NoToken
  /\ consumed = {}
  /\ passed = {}
  /\ deactivated = {}
  /\ fs = NoFS
  /\ client = NoClient
  /\ procs = NoProcs
  /\ last = [kind |-> "init"]

NextDirs == EnsureDirectories \/ FileAppears

SpecDirs == InitDirs /\ [][NextDirs]_vars

\* ---------------------------------------------------------------- the browser
\* Number.prototype.toString of a non-negative integer: its decimal digits.
RECURSIVE NumberToString(_)
NumberToString(n) == IF n < 10 THEN <<n>> ELSE Append(NumberToString(n \div 10), n % 10)

\* parseInt(s, 10) of a string of digits; NaN for a string without a digit.
NaN == -1

RECURSIVE ParseInt(_)
ParseInt(s) ==
  IF s = <<>> THEN NaN
  ELSE IF Len(s) = 1 THEN s[1]
  ELSE 10 * ParseInt(SubSeq(s, 1, Len(s) - 1)) + s[Len(s)]

\* Date.now() >= expiryTime * 1000: the expiry is kept in seconds.
isTokenExpired(cache) ==
  \/ cache.expiry = <<>>
  \/ ParseInt(cache.expiry) # NaN /\ now >= ParseInt(cache.expiry) * TicksPerSecond

isAuthenticated(cache) == cache.token # "" /\ cache.user # "" /\ ~isTokenExpired(cache)

\* setToken and setUser with the backend's AuthResponse, issued now.
Cached == [token |-> "jwt", user |-> "u1", expiry |-> NumberToString((now + TokenTTL) \div TicksPerSecond)]

\* logout that clears the cache only after the backend accepted the call.
oidcLogoutNeedsBackend(cache, fetchOK) ==
  [backend |-> IF cache.token = "" THEN "skipped" ELSE IF fetchOK THEN "ok" ELSE "failed",
   cache |-> IF cache.token # "" /\ ~fetchOK THEN cache ELSE NoCache]

\* OIDCAuthManager.logout: the backend is called when a token is cached, its
\* failure is caught, and the cache is cleared in any case.
oidcLogout(cache, fetchOK) ==
  [backend |-> IF cache.token = "" THEN "skipped" ELSE IF fetchOK THEN "ok" ELSE "failed",
   cache |-> NoCache]

\* AuthProvider.logout with the authType of the render it belongs to.
providerLogout(c, authType, fetchOK) ==
  [backend |-> IF authType = "oidc" THEN oidcLogout(c.cache, fetchOK).backend
               ELSE "not called",
   client |-> [c EXCEPT !.cache = IF authType = "oidc" THEN oidcLogout(@, fetchOK).cache
                                     ELSE @,
                        !.ctx.user = "", !.ctx.token = "", !.ctx.isAuthenticated = FALSE]]

\* AuthProvider.initializeAuth. profile: how the backend answers getUserProfile
\* ("ok", "401", "error"); keyValid: validateApiKey; fetchOK: the logout call.
\* Its logout belongs to the first render, whose authType is "oidc".
initializeAuth(c, profile, keyValid, fetchOK) ==
  LET detected == IF isAuthenticated(c.cache) THEN "oidc"
                  ELSE IF c.apiKey THEN "api_key" ELSE "oidc"
      typed == [c EXCEPT !.ctx.authType = detected, !.ctx.isLoading = FALSE]
      afterProfile == IF profile = "401" THEN [typed EXCEPT !.cache = NoCache] ELSE typed
  IN IF detected = "oidc"
     THEN IF ~isAuthenticated(c.cache) THEN typed
          ELSE IF profile = "ok"
          THEN [typed EXCEPT !.ctx.user = c.cache.user, !.ctx.token = c.cache.token,
                             !.ctx.isAuthenticated = TRUE]
          ELSE providerLogout(afterProfile, "oidc", fetchOK).client
     ELSE IF keyValid
     THEN [typed EXCEPT !.ctx.user = "api_key_user", !.ctx.token = "api-key",
                        !.ctx.isAuthenticated = TRUE]
     ELSE typed

\* The URLs a page is opened with.
CallbackParams == {[code |-> "c1", state |-> "s1"], [code |-> "c1", state |-> ""]}

UnchangedServer ==
  UNCHANGED <<fs, procs, cfg, OIDCClient, UserManager, store, userList, now, nTicks,
              jar, nStates, held, consumed, passed, deactivated>>

\* The browser loads the home page, or the callback page with the parameters
\* the provider's redirect carries. RootLayout mounts the AuthProvider around
\* either page.
OpenPage ==
  /\ client.page = "closed"
  /\ \E page \in {"home", "callback"} :
       \E url \in IF page = "home" THEN {NoParams} ELSE CallbackParams :
         /\ client' = [client EXCEPT !.page = page, !.url = url, !.ctx = NoCtx,
                                     !.provider = "pending",
                                     !.callback = IF page = "home" THEN "none" ELSE "pending",
                                     !.posts = <<>>]
         /\ last' = [kind |-> "open", page |-> page]
  /\ UnchangedServer

ClosePage ==
  /\ client.page # "closed"
  /\ client' = [client EXCEPT !.page = "closed", !.url = NoParams, !.ctx = NoCtx,
                              !.provider = "none", !.callback = "none"]
  /\ last' = [kind |-> "close"]
  /\ UnchangedServer

\* The effect of the callback page, up to its fetch: oidcAuth.handleCallback
\* sends the POST.
CallbackPageEffect ==
  /\ client.callback = "pending"
  /\ client' = IF client.url.code = "" \/ client.url.state = ""
               THEN [client EXCEPT !.callback = "error"]
               ELSE [client EXCEPT !.callback = "posting",
                                   !.posts = Append(@, [by |-> "page", code |-> client.url.code])]
  /\ last' = [kind |-> "page-effect"]
  /\ UnchangedServer

\* The AuthProvider's mount effect, handleURLCallback, up to its first fetch.
\* React runs a child's effects before its parent's. With code and state in
\* the URL it sends the POST through handleOIDCCallback; without, it runs
\* initializeAuth.
ProviderEffect ==
  /\ client.provider = "pending" /\ client.callback # "pending"
  /\ \E profile \in {"ok", "401", "error"}, keyValid \in BOOLEAN, fetchOK \in BOOLEAN :
       client' = IF client.url.code # "" /\ client.url.state # ""
                 THEN [client EXCEPT !.provider = "posting", !.ctx.isLoading = TRUE,
                                     !.posts = Append(@, [by |-> "provider",
                                                          code |-> client.url.code])]
                 ELSE [initializeAuth(client, profile, keyValid, fetchOK)
                         EXCEPT !.provider = "done"]
  /\ last' = [kind |-> "provider-effect"]
  /\ UnchangedServer

\* The backend answers a callback POST. On success handleCallback caches token,
\* expiry and user. The AuthProvider then sets its state and removes the query
\* from the URL. The callback page calls setUser, which the context does not
\* provide, and ends in its catch block like a failed callback.
PostResponds ==
  /\ "pending" \notin {client.provider, client.callback}
  /\ \E by \in {"provider", "page"}, ok \in BOOLEAN :
       /\ by = "provider" => client.provider = "posting"
       /\ by = "page" => client.callback = "posting"
       /\ \E c \in {IF ok THEN [client EXCEPT !.cache = Cached] ELSE client} :
            client' = IF by = "page" THEN [c EXCEPT !.callback = "error"]
                      ELSE IF ok
                      THEN [c EXCEPT !.provider = "done", !.url = NoParams,
                                     !.ctx = [user |-> Cached.user, token |-> Cached.token,
                                              authType |-> "oidc", isAuthenticated |-> TRUE,
                                              isLoading |-> FALSE]]
                      ELSE [c EXCEPT !.provider = "done", !.ctx.isLoading = FALSE]
       /\ last' = [kind |-> "post-response", by |-> by, ok |-> ok]
  /\ UnchangedServer

\* The user logs out through the AuthProvider (UserProfile's menu).
ProviderLogout ==
  /\ client.provider = "done"
  /\ \E fetchOK \in BOOLEAN :
       \E r \in {providerLogout(client, client.ctx.authType, fetchOK)} :
         /\ client' = r.client
         /\ last' = [kind |-> "client-logout", by |-> "AuthProvider", backend |-> r.backend]
  /\ UnchangedServer

\* The exported logout() of the session cache is called.
CacheLogout ==
  /\ client.page # "closed"
  /\ \E fetchOK \in BOOLEAN :
       \E r \in {oidcLogout(client.cache, fetchOK)} :
         /\ client' = [client EXCEPT !.cache = r.cache]
         /\ last' = [kind |-> "client-logout", by |-> "oidcAuth", backend |-> r.backend]
  /\ UnchangedServer

\* The user enters an API key in the login dialog; the backend accepts it, the
\* dialog stores it and reloads the page.
StoreApiKey ==
  /\ client.page # "closed" /\ ~client.apiKey
  /\ client' = [client EXCEPT !.apiKey = TRUE, !.ctx = NoCtx, !.provider = "pending",
                              !.callback = IF @ = "none" THEN "none" ELSE "pending",
                              !.posts = <<>>]
  /\ last' = [kind |-> "api-key"]
  /\ UnchangedServer

InitClient == InitWith(AuthTypeOIDC, {Ready}, {TRUE})

NextClient ==
  \/ OpenPage
  \/ ClosePage
  \/ CallbackPageEffect
  \/ ProviderEffect
  \/ PostResponds
  \/ ProviderLogout
  \/ CacheLogout
  \/ StoreApiKey
  \/ Tick

SpecClient == InitClient /\ [][NextClient]_vars

\* ------------------------------------------------------- the UserStore's calls
\* The operations of the UserStore interface called one at a time, with Redis
\* command failures, a clock that may advance inside a call, and keys Redis no
\* longer holds.
SuppliedUsers ==
  {[ID |-> id, Email |-> p.Email, Name |-> p.Name, Picture |-> p.Picture,
    Provider |-> "oidc", CreatedAt |-> c, UpdatedAt |-> ZeroTime, LastLogin |-> l,
    IsActive |-> a] :
     id \in Users, p \in Profiles, c \in {ZeroTime, 1}, l \in {ZeroTime, 2}, a \in BOOLEAN}

\* The calls that change a record are made for one user, created with the
\* first profile; the other is only created, with the second profile, so that
\* listings have a second member.
Target == "u1"

\* The clock after a call that read it n times.
Ticked(n, tickAt) ==
  /\ tickAt # 0 => nTicks < MaxTicks
  /\ now' = Clock(n, tickAt)
  /\ nTicks' = IF tickAt # 0 THEN nTicks + 1 ELSE nTicks

\* CreateUser as CreateOrUpdateUser calls it: for an id GetUser did not find.
StoreCreateUser ==
  \E user \in {u \in SuppliedUsers :
                 /\ u.CreatedAt = ZeroTime /\ u.LastLogin = ZeroTime /\ ~u.IsActive
                 /\ (u.ID = Target) = (u.Picture # "")},
     failAt \in 0..2, tickAt \in {0, 2} :
    \E r \in {CreateUser(store, userList, user, Clock(1, tickAt), Clock(2, tickAt),
                         failAt = 1, failAt = 2)} :
      /\ store[userKey(user.ID)] = Nil
      /\ store' = r.store
      /\ userList' = r.list
      /\ Ticked(2, tickAt)
      /\ last' = [kind |-> "store-create", id |-> user.ID, err |-> r.err, at |-> now]
      /\ UNCHANGED <<fs, client, procs, cfg, OIDCClient, UserManager, jar, nStates, held, consumed,
                     passed, deactivated>>

StoreUpdateUser ==
  \E user \in {u \in SuppliedUsers : u.ID = Target /\ u.CreatedAt # ZeroTime},
     failAt \in 0..2, tickAt \in 0..1 :
    \E r \in {UpdateUser(store, user, Clock(1, tickAt), failAt = 1, failAt = 2)} :
      /\ store' = r.store
      /\ Ticked(1, tickAt)
      /\ last' = [kind |-> "store-update", id |-> user.ID, supplied |-> user,
                  err |-> r.err, failAt |-> failAt, before |-> store[userKey(user.ID)],
                  at |-> now]
      /\ UNCHANGED <<fs, client, procs, cfg, OIDCClient, UserManager, userList, jar, nStates, held,
                     consumed, passed, deactivated>>

StoreUpdateLastLogin ==
  \E id \in {Target}, failAt \in 0..3, tickAt \in {0, 2} :
    \E r \in {UpdateLastLogin(store, id, Clock(1, tickAt), Clock(2, tickAt),
                              Clock(3, tickAt), failAt = 1, failAt = 2, failAt = 3)} :
      /\ store' = r.store
      /\ Ticked(3, tickAt)
      /\ last' = [kind |-> "store-ull", id |-> id, err |-> r.err, failAt |-> failAt,
                  before |-> store[userKey(id)], at |-> now]
      /\ UNCHANGED <<fs, client, procs, cfg, OIDCClient, UserManager, userList, jar, nStates, held,
                     consumed, passed, deactivated>>

StoreDeactivateUser ==
  \E id \in {Target}, failAt \in 0..3, tickAt \in 0..1 :
    \E r \in {DeactivateUser(store, id, Clock(1, tickAt), Clock(2, tickAt),
                             failAt = 1, failAt = 2, failAt = 3)} :
      /\ store' = r.store
      /\ Ticked(2, tickAt)
      /\ last' = [kind |-> "store-deactivate", id |-> id, err |-> r.err,
                  failAt |-> failAt, before |-> store[userKey(id)],
                  listed |-> ListUsers(store, userList, FALSE, {}).users, at |-> now]
      /\ UNCHANGED <<fs, client, procs, cfg, OIDCClient, UserManager, userList, jar, nStates, held,
                     consumed, passed, deactivated>>

StoreListUsers ==
  \E failSMembers \in BOOLEAN, failIds \in SUBSET Users :
    \E r \in {ListUsers(store, userList, failSMembers, failIds)} :
      /\ failSMembers => failIds = {}
      /\ last' = [kind |-> "store-list", err |-> r.err, users |-> r.users,
                  failSMembers |-> failSMembers, failIds |-> failIds]
      /\ UNCHANGED <<fs, client, procs, cfg, OIDCClient, UserManager, store, userList, now, nTicks,
                     jar, nStates, held, consumed, passed, deactivated>>

\* Redis no longer holds a user's key (evicted, or deleted by an operator); the
\* membership set still names the id.
KeyLost ==
  \E id \in Users :
    /\ store[userKey(id)] # Nil
    /\ store' = [store EXCEPT ![userKey(id)] = Nil]
    /\ last' = [kind |-> "key-lost", id |-> id]
    /\ UNCHANGED <<fs, client, procs, cfg, OIDCClient, UserManager, userList, now, nTicks, jar,
                   nStates, held, consumed, passed, deactivated>>

InitUserStoreCalls == InitWith(AuthTypeOIDC, {Ready}, {TRUE})

NextUserStoreCalls ==
  \/ StoreCreateUser
  \/ StoreUpdateUser
  \/ StoreUpdateLastLogin
  \/ StoreDeactivateUser
  \/ StoreListUsers
  \/ KeyLost

SpecUserStoreCalls == InitUserStoreCalls /\ [][NextUserStoreCalls]_vars

\* ------------------------------------------------------------------- startup
\* The configuration the process starts with: a required OIDC setting is empty
\* or set.
Settings == {"", "set"}

StartupConfigs ==
  [AuthType : {AuthTypeAPIKey, AuthTypeOIDC} \cup UnknownModes, APIKey : {<<"k1">>},
   OIDCIssuer : Settings, OIDCClientID : Settings, OIDCClientSecret : Settings,
   OIDCRedirectURL : Settings, JWTSigningKey : {"", ServerKey}]

\* providerOK: oidc.NewProvider reaches the issuer's discovery document.
InitOIDCProvider(c, providerOK) ==
  LET Failed(msg) == [err |-> Errorf(msg, ""), client |-> NULL]
  IN IF c.AuthType = AuthTypeAPIKey THEN [err |-> NoErr, client |-> NULL]
     ELSE IF c.OIDCIssuer = "" THEN Failed("OIDC issuer URL is required")
     ELSE IF c.OIDCClientID = "" THEN Failed("OIDC client ID is required")
     ELSE IF c.OIDCClientSecret = "" THEN Failed("OIDC client secret is required")
     ELSE IF c.OIDCRedirectURL = "" THEN Failed("OIDC redirect URL is required")
     ELSE IF c.JWTSigningKey = "" THEN Failed("JWT signing key is required")
     ELSE IF ~providerOK THEN Failed("failed to create OIDC provider: %v")
     ELSE [err |-> NoErr,
           client |-> [Initialized |-> TRUE, JWTSignKey |-> c.JWTSigningKey, nil |-> FALSE]]

\* redisOK: IsRedisMetadataStore().
InitUserStore(c, redisOK) ==
  IF c.AuthType = AuthTypeAPIKey THEN [err |-> NoErr, mgr |-> FALSE]
  ELSE IF ~redisOK
  THEN [err |-> Errorf("OIDC authentication requires Redis for user storage", ""),
        mgr |-> FALSE]
  ELSE [err |-> NoErr, mgr |-> TRUE]

InitStartup ==
  /\ cfg \in StartupConfigs
  /\ \E providerOK \in BOOLEAN, redisOK \in BOOLEAN :
       \E o \in {InitOIDCProvider(cfg, providerOK)}, u \in {InitUserStore(cfg, redisOK)} :
         /\ OIDCClient = o.client
         /\ UserManager = u.mgr
         /\ last = [kind |-> "startup", oidcErr |-> o.err, storeErr |-> u.err]
  /\ store = [u \in Users |-> Nil]
  /\ userList = {}
  /\ now = 2 * TicksPerSecond - 1
  /\ nTicks = 0
  /\ jar = NoCookie
  /\ nStates = 0
  /\ held = NoToken
  /\ consumed = {}
  /\ passed = {}
  /\ deactivated = {}
  /\ fs = NoFS
  /\ client = NoClient
  /\ procs = NoProcs

\* The process serves requests only when both initializations returned nil:
\* outside API-key mode that leaves both globals set.
Serving ==
  cfg.AuthType # AuthTypeAPIKey => (OIDCClient # NULL /\ UserManager)

ServeAuthenticate == Serving /\ Authenticate(OIDCHeaders, {NoToken})

ServeLogin == Serving /\ Login

NextStartup == ServeAuthenticate \/ ServeLogin

SpecStartup == InitStartup /\ [][NextStartup]_vars

\* ------------------------------------------------- concurrent store operations
\* Two goroutines, each running UserStore operations for its own user. Every
\* Redis command (GET, SET, SADD) is atomic and is one step; the commands of one
\* operation interleave with the other goroutine's. No command fails and the
\* clock stands still.
Procs == {"A", "B"}
StoreOps == {"upsert", "updateLastLogin", "deactivate"}

\* Sequences of at most n operations.
RECURSIVE OpLists(_)
OpLists(n) ==
  IF n = 0 THEN {<<>>}
  ELSE OpLists(n - 1)
       \cup {Append(l, o) : l \in {x \in OpLists(n - 1) : Len(x) = n - 1}, o \in StoreOps}

\* The identity the provider reports for the user a goroutine serves.
ProcInfo(p) ==
  IF p = "A" THEN [Sub |-> "u1", Email |-> "e1", Name |-> "n1", Picture |-> "p1"]
  ELSE [Sub |-> "u2", Email |-> "e2", Name |-> "n2", Picture |-> ""]

\* The first Redis command of an operation.
FirstCommand(op) ==
  CASE op = "upsert" -> "cou-get"
    [] op = "updateLastLogin" -> "ull-get"
    [] OTHER -> "de-get"

\* The next Redis command of goroutine record pr = [info, all, ops, pc, buf,
\* failed] on
\* store st and membership index lst: pc is the command it stands before, buf the
\* *User it is building.
Command(pr, st, lst) ==
  LET pc == IF pr.pc = "idle" THEN FirstCommand(Head(pr.ops)) ELSE pr.pc
      id == pr.info.Sub
      Goto(next, buf, st2, lst2) ==
        [proc |-> [pr EXCEPT !.pc = next, !.buf = buf], store |-> st2, list |-> lst2]
      Return(st2) ==
        [proc |-> [pr EXCEPT !.ops = Tail(@), !.pc = "idle", !.buf = NoUser],
         store |-> st2, list |-> lst]
      \* The operation returns an error; inside an upsert UpdateLastLogin's is
      \* only logged.
      Errored ==
        [proc |-> [pr EXCEPT !.ops = Tail(@), !.pc = "idle", !.buf = NoUser,
                             !.failed = @ \/ ~(Head(pr.ops) = "upsert"
                                               /\ pc \in {"ull-get", "ull-get2"})],
         store |-> st, list |-> lst]
      Put(u) == [st EXCEPT ![userKey(u.ID)] = Marshal(u)]
      New ==
        [ID |-> id, Email |-> pr.info.Email, Name |-> pr.info.Name,
         Picture |-> pr.info.Picture, Provider |-> "oidc",
         CreatedAt |-> ZeroTime, UpdatedAt |-> ZeroTime, LastLogin |-> ZeroTime,
         IsActive |-> FALSE]
      \* CreateOrUpdateUser's GetUser
      Existing(got) ==
        IF got.err # NoErr /\ got.err # Errorf("user not found: %s", id) THEN Errored
        ELSE IF got.user = NoUser THEN Goto("create-set", New, st, lst)
        ELSE Goto("update-get", [New EXCEPT !.CreatedAt = got.user.CreatedAt,
                                            !.IsActive = got.user.IsActive], st, lst)
      \* UpdateUser's GetUser
      Preserved(got, next) ==
        IF got.err # NoErr THEN Errored
        ELSE Goto(next, PreserveCreatedAt(pr.buf, got.user, now), st, lst)
      \* UpdateLastLogin's GetUser
      Loaded(got) ==
        IF got.err # NoErr THEN Errored
        ELSE Goto("ull-get2", [got.user EXCEPT !.LastLogin = now, !.UpdatedAt = now], st, lst)
      \* DeactivateUser's GetUser
      Fetched(got) ==
        IF got.err # NoErr THEN Errored
        ELSE Goto("de-get2", [got.user EXCEPT !.IsActive = FALSE, !.UpdatedAt = now], st, lst)
      Created(u) == Goto("create-sadd", u, Put(u), lst)
  IN CASE pc = "cou-get" -> Existing(GetUser(st, id, FALSE))
       [] pc = "create-set" ->
            Created([pr.buf EXCEPT !.CreatedAt = now, !.UpdatedAt = now, !.IsActive = TRUE])
       [] pc = "create-sadd" -> Goto("ull-get", pr.buf, st, lst \cup {pr.buf.ID})
       [] pc = "update-get" -> Preserved(GetUser(st, id, FALSE), "update-set")
       [] pc = "update-set" -> Goto("ull-get", pr.buf, Put(pr.buf), lst)
       [] pc = "ull-get" -> Loaded(GetUser(st, id, FALSE))
       [] pc = "ull-get2" -> Preserved(GetUser(st, id, FALSE), "ull-set")
       [] pc = "ull-set" -> Return(Put(pr.buf))
       [] pc = "de-get" -> Fetched(GetUser(st, id, FALSE))
       [] pc = "de-get2" -> Preserved(GetUser(st, id, FALSE), "de-set")
       [] OTHER -> Return(Put(pr.buf))

\* Goroutine p runs the next command of its current operation op.
StepOf(p, op) ==
  /\ procs[p].ops # <<>> /\ Head(procs[p].ops) = op
  /\ \E r \in {Command(procs[p], store, userList)} :
       /\ store' = r.store
       /\ userList' = r.list
       /\ procs' = [procs EXCEPT ![p] = r.proc]
       /\ last' = [kind |-> "command", proc |-> p, op |-> op, user |-> procs[p].info.Sub]
  /\ UNCHANGED <<fs, client, cfg, OIDCClient, UserManager, now, nTicks, jar, nStates,
                 held, consumed, passed, deactivated>>

UpsertStep == \E p \in Procs : StepOf(p, "upsert")

UpdateLastLoginStep == \E p \in Procs : StepOf(p, "updateLastLogin")

DeactivateStep == \E p \in Procs : StepOf(p, "deactivate")

InitConcurrent ==
  /\ cfg = [AuthType |-> AuthTypeOIDC, APIKey |-> <<>>]
  /\ OIDCClient = Ready
  /\ UserManager = TRUE
  /\ store = [u \in Users |-> Nil]
  /\ userList = {}
  /\ now = 2 * TicksPerSecond - 1
  /\ nTicks = 0
  /\ jar = NoCookie
  /\ nStates = 0
  /\ held = NoToken
  /\ consumed = {}
  /\ passed = {}
  /\ deactivated = {}
  /\ fs = NoFS
  /\ client = NoClient
  /\ \E f \in [Procs -> OpLists(MaxOpsPerUser) \ {<<>>}] :
       procs = [p \in Procs |->
                  [info |-> ProcInfo(p), all |-> f[p], ops |-> f[p], pc |-> "idle",
                   buf |-> NoUser, failed |-> FALSE]]
  /\ last = [kind |-> "init"]

NextConcurrent == UpsertStep \/ UpdateLastLoginStep \/ DeactivateStep

SpecConcurrent == InitConcurrent /\ [][NextConcurrent]_vars

\* What the operations `ops` for the user of `info` leave when they run one
\* after another with nothing else running.
RECURSIVE RunAlone(_, _, _, _)
RunAlone(st, lst, ops, info) ==
  LET Rest(r, lst2) == RunAlone(r.store, lst2, Tail(ops), info)
      Upserted(r) == Rest(r, r.list)
  IN IF ops = <<>> THEN [store |-> st, list |-> lst]
     ELSE CASE Head(ops) = "upsert" ->
                 Upserted(CreateOrUpdateUser(st, lst, info, "oidc", 0, FALSE, 0))
            [] Head(ops) = "updateLastLogin" ->
                 Rest(UpdateLastLogin(st, info.Sub, now, now, now, FALSE, FALSE, FALSE), lst)
            [] OTHER ->
                 Rest(DeactivateUser(st, info.Sub, now, now, FALSE, FALSE, FALSE), lst)

\* ------------------------------------------------ logins racing for one subject
\* Two callbacks for the same subject run CreateOrUpdateUser concurrently; the
\* provider reports a different profile to each.
RaceInfo(p) ==
  IF p = "A" THEN [Sub |-> "u1", Email |-> "e1", Name |-> "n1", Picture |-> "p1"]
  ELSE [Sub |-> "u1", Email |-> "e2", Name |-> "n2", Picture |-> ""]

\* 1..n upserts in a row.
Upserts(n) == {[i \in 1..k |-> "upsert"] : k \in 1..n}

InitRace ==
  /\ cfg = [AuthType |-> AuthTypeOIDC, APIKey |-> <<>>]
  /\ OIDCClient = Ready
  /\ UserManager = TRUE
  /\ store = [u \in Users |-> Nil]
  /\ userList = {}
  /\ now = 2 * TicksPerSecond - 1
  /\ nTicks = 0
  /\ jar = NoCookie
  /\ nStates = 0
  /\ held = NoToken
  /\ consumed = {}
  /\ passed = {}
  /\ deactivated = {}
  /\ fs = NoFS
  /\ client = NoClient
  /\ \E f \in [Procs -> Upserts(MaxOpsPerUser)] :
       procs = [p \in Procs |->
                  [info |-> RaceInfo(p), all |-> f[p], ops |-> f[p], pc |-> "idle",
                   buf |-> NoUser, failed |-> FALSE]]
  /\ last = [kind |-> "init"]

NextRace == UpsertStep

SpecRace == InitRace /\ [][NextRace]_vars

\* --------------------------------------------- a login racing a deactivation
\* A callback runs CreateOrUpdateUser for a subject while an administrator's
\* request runs DeactivateUser for the same subject.
InitDeactivateRace ==
  /\ cfg = [AuthType |-> AuthTypeOIDC, APIKey |-> <<>>]
  /\ OIDCClient = Ready
  /\ UserManager = TRUE
  /\ store = [u \in Users |-> Nil]
  /\ userList = {}
  /\ now = 2 * TicksPerSecond - 1
  /\ nTicks = 0
  /\ jar = NoCookie
  /\ nStates = 0
  /\ held = NoToken
  /\ consumed = {}
  /\ passed = {}
  /\ deactivated = {}
  /\ fs = NoFS
  /\ client = NoClient
  /\ \E logins \in Upserts(MaxOpsPerUser + 1) :
       procs = [p \in Procs |->
                  [info |-> RaceInfo(p),
                   all |-> IF p = "A" THEN logins ELSE <<"deactivate">>,
                   ops |-> IF p = "A" THEN logins ELSE <<"deactivate">>,
                   pc |-> "idle", buf |-> NoUser, failed |-> FALSE]]
  /\ last = [kind |-> "init"]

NextDeactivateRace == UpsertStep \/ DeactivateStep

SpecDeactivateRace == InitDeactivateRace /\ [][NextDeactivateRace]_vars

\* -------------------------------------------------------------------- claims
\* The properties below read the last request and its response (`last`).

IsCallback == last.kind \in {"callback-get", "callback-post"}

\* The request reached the callback's own steps: OIDC mode, a configured client
\* and, for POST, the method and a decodable body.
InCallback == IsCallback /\ last.step \notin {"method", "mode", "client", "body"}

IsAuth == last.kind = "auth"

\* "Authorization: Bearer <the token the request carries>"
BearerJWT == <<"Bearer", " ", "jwt">>

\* C1: in both callback handlers, a request whose oidc_state cookie is absent or
\* differs from the presented state is rejected as InvalidState (a state
\* rejection), and no code exchange, UserStore write or session token follows.
C1_MismatchRejectedAsInvalidState ==
  (InCallback /\ (last.req.cookie = NoCookie \/ last.req.cookie # last.req.state))
    => /\ last.step \in {"state", "state-param"}
       /\ ~last.exchanged
       /\ ~last.changed
       /\ last.token = NoToken

\* C2 as stated: once a callback with a state has issued a session, every later
\* callback presenting that state, with the same or another code, fails with
\* InvalidState.
C2_ReuseFailsWithInvalidState ==
  (IsCallback /\ last.reused /\ last.req.code # "")
    => (last.step = "state" /\ last.token = NoToken)

\* C2, amended: a callback presenting a state OIDCLoginHandler returned, with
\* the matching cookie and a code, succeeds when the provider and the store
\* answer; and a later callback with that state from the browser that already
\* carried it through a state check (and so applied the cookie clearing) is
\* rejected before any exchange: as InvalidState, or by the POST handler as a
\* missing code.
C2_OnceForTheBrowser ==
  /\ (InCallback /\ last.req.state \in 1..nStates /\ last.req.cookie = last.req.state
        /\ last.req.code # "" /\ last.env.exch /\ last.env.extract
        /\ last.env.failAt = 0 /\ UserManager)
       => (last.step = "done" /\ last.token # NoToken
             /\ last.user.ID = last.env.info.Sub)
  /\ (IsCallback /\ last.viaBrowser /\ last.again)
       => (last.step \in {"state", "code-param"}
             /\ ~last.exchanged /\ ~last.changed /\ last.token = NoToken)

\* A browser's second callback with a state that already issued a session.
C2_Witness ==
  /\ IsCallback /\ last.viaBrowser /\ last.again /\ last.reused
  /\ last.req.code # ""
  /\ last.step = "state"

\* C3: every callback attempt carrying the cookie that reaches the callback's
\* steps gets a response that clears oidc_state, whatever the outcome.
C3_EveryAttemptClearsCookie ==
  (InCallback /\ last.req.cookie # NoCookie) => last.cookieOp.op = "clear"

\* C4: once DeactivateUser(U) has succeeded, a request carrying an unexpired
\* token issued for U is rejected by GetUserFromRequest as UserInactive ("user
\* account is deactivated") when the store answers the lookup, and is never
\* rejected as a token verification failure nor admitted.
C4_DeactivatedIsUserInactive ==
  (IsAuth /\ last.header = BearerJWT /\ held # NoToken /\ last.jwt = held
     /\ held.UserID \in deactivated /\ last.at < held.ExpiresAt)
    => /\ ~last.resp.next
       /\ last.resp.code = "ErrUnauthorized"
       /\ last.resp.detail # "invalid JWT token: %v"
       /\ last.resp.reads = 1
       /\ ~last.failGet => last.resp.detail = "user account is deactivated"

C4_Witness ==
  /\ IsAuth /\ last.header = BearerJWT /\ held # NoToken /\ last.jwt = held
  /\ held.UserID \in deactivated /\ last.at < held.ExpiresAt /\ ~last.failGet
  /\ last.resp.detail = "user account is deactivated"

\* C5: when CreateOrUpdateUser runs for a subject with a stored record, the
\* record afterwards has the createdAt and isActive it had before; if the
\* upsert succeeded it has the new email, name and picture and an updatedAt
\* read during the call, and if it failed the record is untouched.
C5_UpsertPreservesCreatedAtAndIsActive ==
  (IsCallback /\ last.upsert /\ last.before # Nil)
    => /\ store[last.sub] # Nil
       /\ store[last.sub][6] = last.before[6]
       /\ store[last.sub][9] = last.before[9]
       /\ last.step = "done"
            => /\ store[last.sub][2] = last.info.Email
               /\ store[last.sub][3] = last.info.Name
               /\ store[last.sub][4] = last.info.Picture
               /\ store[last.sub][7] >= last.at
               /\ store[last.sub][7] <= now
               /\ store[last.sub][7] >= last.before[7]
       /\ last.step = "upsert" => store[last.sub] = last.before

\* A deactivated user logs in again with a changed profile, later.
C5_Witness ==
  /\ IsCallback /\ last.upsert /\ last.before # Nil /\ last.step = "done"
  /\ last.before[9] = FALSE
  /\ last.before[3] # last.info.Name
  /\ store[last.sub][7] > last.before[7]

\* C6: in API-key mode RequireAuth rejects with ErrInvalidAPIKey and does not
\* call next when the header is absent, is not exactly two space-separated
\* tokens with scheme Bearer, or carries a value other than the configured key.
C6_BadHeaderRejected ==
  LET h == last.header
      spaces == {i \in 1..Len(h) : h[i] = " "}
      sep == CHOOSE i \in spaces : TRUE
      absent == h = <<>>
      malformed == Cardinality(spaces) # 1 \/ SubSeq(h, 1, sep - 1) # <<"Bearer">>
      wrongKey == Cardinality(spaces) = 1 /\ SubSeq(h, sep + 1, Len(h)) # cfg.APIKey
  IN (IsAuth /\ cfg.AuthType = AuthTypeAPIKey /\ (absent \/ malformed \/ wrongKey))
       => (last.resp.code = "ErrInvalidAPIKey" /\ ~last.resp.next
             /\ last.resp.user = NoUser)

\* The key follows a second separator.
C6_Witness ==
  /\ IsAuth /\ cfg.AuthType = AuthTypeAPIKey
  /\ last.header = <<"Bearer", " ", " ", "k1">> /\ cfg.APIKey = <<"k1">>
  /\ last.resp.code = "ErrInvalidAPIKey" /\ ~last.resp.next

\* C7: in API-key mode a request whose bearer value equals the configured key
\* reaches next with the sentinel identity: id "api_key_user", isActive true.
C7_KeyAdmitsActiveSentinel ==
  (IsAuth /\ cfg.AuthType = AuthTypeAPIKey /\ last.header = <<"Bearer", " ">> \o cfg.APIKey)
    => (last.resp.next /\ last.resp.user.ID = "api_key_user"
          /\ last.resp.user.IsActive = TRUE)

\* C8: a token whose header declares a signing method outside HS256/HS384/HS512
\* is rejected as an invalid token with no UserStore lookup and no identity
\* taken from it, also when its signature verifies under the declared method.
C8_NonHMACRejectedBeforeLookup ==
  (IsAuth /\ last.header = BearerJWT /\ last.jwt # NoToken
     /\ last.jwt.alg \notin {"HS256", "HS384", "HS512"})
    => /\ ~last.resp.next
       /\ last.resp.code = "ErrUnauthorized"
       /\ last.resp.detail = "invalid JWT token: %v"
       /\ last.resp.reads = 0
       /\ last.resp.user = NoUser

\* An RS256 token, valid under its own method, naming a stored active user.
C8_Witness ==
  /\ IsAuth /\ last.header = BearerJWT /\ last.jwt # NoToken
  /\ last.jwt.alg = "RS256" /\ last.jwt.sig = SelfSigned
  /\ store[last.jwt.UserID] # Nil /\ store[last.jwt.UserID][9] = TRUE
  /\ ~last.resp.next

\* C9: a request carrying a token whose expiresAt is reached or passed is never
\* admitted by RequireAuth in OIDC mode, whatever its signature and the user's
\* state in the store, and is rejected before the store is read.
C9_ExpiredNeverAdmitted ==
  (IsAuth /\ cfg.AuthType = AuthTypeOIDC /\ last.jwt # NoToken
     /\ last.at >= last.jwt.ExpiresAt)
    => (~last.resp.next /\ last.resp.reads = 0 /\ last.resp.code = "ErrUnauthorized")

\* The server's own token for a stored active user, at its expiry instant.
C9_Witness ==
  /\ IsAuth /\ last.header = BearerJWT /\ held # NoToken /\ last.jwt = held
  /\ held.sig = ServerKey /\ last.at = held.ExpiresAt
  /\ store[held.UserID] # Nil /\ store[held.UserID][9] = TRUE /\ ~last.failGet
  /\ last.resp.detail = "invalid JWT token: %v"

\* C10 as stated: a token just issued validates, with the user's id and
\* provider, and its expiresAt equals its issuedAt plus 24 hours.
C10_ExpiresExactly24hAfterIssue ==
  (IsCallback /\ last.step = "done")
    => /\ ValidateJWT(last.token, now).err = NoErr
       /\ last.token.UserID = last.user.ID
       /\ last.token.Provider = last.user.Provider
       /\ last.token.ExpiresAt = last.token.IssuedAt + TokenTTL

\* C10, amended: a token just issued validates and yields the user's id and
\* provider; its expiresAt is at most issuedAt + 24h, equal to it unless the
\* clock advanced between GenerateJWT's two reads, and then short of it by at
\* most the second that advance crossed; and the gate admits its bearer, as the
\* stored user, while the token is unexpired and the user active.
C10_IssueThenValidate ==
  /\ (IsCallback /\ last.step = "done")
       => /\ ValidateJWT(last.token, now) = [err |-> NoErr, claims |-> last.token]
          /\ last.token.UserID = last.user.ID
          /\ last.token.Provider = last.user.Provider
          /\ last.token.ExpiresAt <= last.token.IssuedAt + TokenTTL
          /\ last.token.ExpiresAt >= last.token.IssuedAt + TokenTTL - TicksPerSecond
          /\ last.env.tickAt # 7 => last.token.ExpiresAt = last.token.IssuedAt + TokenTTL
          /\ now < last.token.ExpiresAt
          /\ last.user.IsActive
               => GetUserFromRequest(BearerJWT, last.token, store, FALSE).err = NoErr
  /\ (IsAuth /\ last.header = BearerJWT /\ last.jwt # NoToken
        /\ last.jwt.sig = ServerKey /\ last.jwt.alg = "HS256"
        /\ last.at < last.jwt.ExpiresAt /\ ~last.failGet
        /\ store[last.jwt.UserID] # Nil /\ store[last.jwt.UserID][9] = TRUE)
       => /\ last.resp.next
          /\ last.resp.user.ID = last.jwt.UserID
          /\ last.resp.user.Provider = last.jwt.Provider

\* A token whose two clock reads straddled a second, admitted at once.
C10_Witness ==
  /\ IsAuth /\ last.header = BearerJWT /\ held # NoToken /\ last.jwt = held
  /\ held.ExpiresAt < held.IssuedAt + TokenTTL
  /\ last.at < held.IssuedAt + TicksPerSecond
  /\ last.resp.next /\ last.resp.user.ID = held.UserID

\* C11: every token GenerateJWT produces has subject = userID = the id of the
\* user it was minted for, and the user a successful validation returns is the
\* record stored under that id now, not the profile the token carries.
C11_SubjectIsUserAndUserIsLive ==
  /\ (IsCallback /\ last.step = "done")
       => /\ last.token.Subject = last.token.UserID
          /\ last.token.UserID = last.user.ID
          /\ last.token.UserID = last.env.info.Sub
  /\ (IsAuth /\ cfg.AuthType = AuthTypeOIDC /\ last.resp.next)
       => /\ last.jwt # NoToken
          /\ last.jwt.Subject = last.jwt.UserID
          /\ store[last.jwt.UserID] # Nil
          /\ Marshal(last.resp.user) = store[last.jwt.UserID]

\* A token minted before the user's profile changed is admitted with the
\* stored profile.
C11_Witness ==
  /\ IsAuth /\ last.resp.next /\ last.jwt = held
  /\ held.Name # last.resp.user.Name
  /\ store[held.UserID][3] = last.resp.user.Name

\* C12: in OIDC mode RequireAuth calls next exactly when the header is
\* "Bearer <token>", the token is HMAC-signed with the server's key and
\* unexpired, and its user is read from the store and active; it then attaches
\* the stored user. Every other request (no header, no Bearer prefix, a bad
\* token, a user not found, an inactive user) is rejected with ErrUnauthorized,
\* no identity attached and next not called.
C12_NextOnlyForLiveUser ==
  (IsAuth /\ cfg.AuthType = AuthTypeOIDC)
    => LET valid == /\ last.header = BearerJWT
                    /\ last.jwt # NoToken
                    /\ last.jwt.alg \in {"HS256", "HS384", "HS512"}
                    /\ last.jwt.sig = ServerKey
                    /\ last.at < last.jwt.ExpiresAt
                    /\ ~last.failGet
                    /\ store[last.jwt.UserID] # Nil
                    /\ store[last.jwt.UserID][9] = TRUE
       IN /\ last.resp.next <=> valid
          /\ last.resp.next
               => (last.resp.code = "" /\ Marshal(last.resp.user) = store[last.jwt.UserID])
          /\ ~last.resp.next
               => (last.resp.code = "ErrUnauthorized" /\ last.resp.user = NoUser)

\* The last tick before the token expires: still admitted.
C12_Witness ==
  /\ IsAuth /\ cfg.AuthType = AuthTypeOIDC /\ last.header = BearerJWT
  /\ last.jwt = held /\ held # NoToken
  /\ last.at = held.ExpiresAt - 1
  /\ last.resp.next /\ last.resp.user.ID = held.UserID

\* C13: when the configured mode is neither api_key nor oidc, RequireAuth
\* answers every request, whatever its header, with ErrServerError, attaches no
\* identity, reads no store and does not call next.
C13_UnknownModeIsServerError ==
  (IsAuth /\ cfg.AuthType \notin {"api_key", "oidc"})
    => /\ last.resp.code = "ErrServerError"
       /\ ~last.resp.next
       /\ last.resp.user = NoUser
       /\ last.resp.reads = 0

\* The configured API key itself is of no use in an unknown mode.
C13_Witness ==
  /\ IsAuth /\ cfg.AuthType = "OIDC"
  /\ cfg.APIKey = <<"k1">> /\ last.header = <<"Bearer", " ", "k1">>
  /\ last.resp.code = "ErrServerError" /\ ~last.resp.next

\* C14: a request through RequireAuth, admitted or rejected, writes nothing to
\* the UserStore: the stored records and the membership index are the same
\* after it as before.
C14_GateWritesNothing ==
  [][last'.kind = "auth" => (store' = store /\ userList' = userList)]_vars

\* An admitted request, served from a store that holds a record and an index.
C14_Witness ==
  /\ IsAuth /\ last.resp.next /\ last.resp.reads = 1
  /\ store[last.resp.user.ID] # Nil
  /\ last.resp.user.ID \in userList
  /\ last.resp.user.LastLogin # ZeroTime

\* The outcome class of the step at which a callback ended.
OutcomeClass(step) ==
  CASE step \in {"state", "state-param"} -> "InvalidState"
    [] step \in {"code", "code-param"} -> "MissingCode"
    [] step \in {"exchange", "extract"} -> "ProviderExchangeFailure"
    [] step \in {"upsert", "jwt"} -> "ServerError"
    [] OTHER -> step

\* C15: given the same cookie, state and code (and the same answers from the
\* provider and the store), the GET and the POST callback handler end in the
\* same outcome class, with the same effect on the oidc_state cookie and on the
\* UserStore, and both or neither issue a token.
C15_SurfacesAgree ==
  InCallback
    => /\ OutcomeClass(last.step) = OutcomeClass(last.twin.step)
       /\ last.cookieOp = last.twin.cookieOp
       /\ last.changed = last.twin.changed
       /\ (last.token = NoToken) = (last.twin.token = NoToken)

\* C16: a login upsert for a subject that had no stored record leaves, once a
\* record is stored, a record with isActive = true and createdAt = updatedAt.
C16_FirstUpsertStampsOnce ==
  (IsCallback /\ last.upsert /\ last.before = Nil /\ store[last.sub] # Nil)
    => /\ store[last.sub][9] = TRUE
       /\ store[last.sub][6] = store[last.sub][7]

\* The lastLogin update of the last callback's upsert failed after its create or
\* update write succeeded: a command of UpdateLastLogin failed, or the context
\* was cancelled at the membership write that follows a successful create.
LastLoginUpdateFailed ==
  /\ IsCallback /\ last.upsert /\ UserManager
  /\ \/ last.env.failAt \in 4..NOps
     \/ last.env.failAt = 3 /\ last.env.sticky /\ last.before = Nil

\* C17: when the lastLogin update fails during a login whose create or update
\* succeeded, the failure is only logged: the upsert returns the user without
\* error, a session token is issued for that user and the callback responds
\* with success.
C17_LastLoginFailureIsSwallowed ==
  LastLoginUpdateFailed
    => /\ last.ullErr # NoErr
       /\ last.step = "done" /\ last.msg = ""
       /\ last.user # NoUser /\ last.user.ID = last.sub
       /\ last.token # NoToken /\ last.token.UserID = last.sub

C17_Witness ==
  /\ LastLoginUpdateFailed /\ last.step = "done" /\ last.token # NoToken
  /\ last.env.failAt = NOps /\ last.before # Nil
  /\ store[last.sub][8] = ZeroTime

\* C18: the login upsert takes the create path only when GetUser reports "user
\* not found" for the subject. When GetUser fails with another storage error the
\* upsert returns an error (the callback answers with a server error, no token)
\* and writes neither the record nor the membership index; a record that exists
\* is never rewritten by CreateUser: its createdAt and isActive stay and the
\* subject is not added to the membership index.
C18_CreateOnlyOnNotFound ==
  (IsCallback /\ last.upsert /\ UserManager)
    => /\ last.env.failAt = 1
            => /\ last.step = "upsert" /\ last.msg = "ErrServerError"
               /\ last.token = NoToken /\ last.user = NoUser
               /\ ~last.changed /\ store[last.sub] = last.before
       /\ last.before # Nil
            => /\ store[last.sub] # Nil
               /\ store[last.sub][6] = last.before[6]
               /\ store[last.sub][9] = last.before[9]
               /\ (last.sub \in userList) = last.inList
       /\ (last.before = Nil /\ store[last.sub] # Nil)
            => /\ last.env.failAt \notin {1, 2}
               /\ store[last.sub][9] = TRUE

C18_Witness ==
  /\ IsCallback /\ last.upsert /\ UserManager
  /\ last.env.failAt = 1 /\ last.before # Nil /\ last.before[9] = FALSE
  /\ last.step = "upsert" /\ store[last.sub] = last.before

\* C19: when the request's context is cancelled at a store command of the
\* callback's upsert, the callback answers with a server error and the stored
\* record is either the one from before the request or the complete post-login
\* record (the provider's profile with lastLogin written by this login).
C19_CancelledUpsertLeavesNoPartialRecord ==
  (IsCallback /\ last.upsert /\ UserManager /\ last.env.sticky /\ last.env.failAt # 0)
    => /\ last.step = "upsert" /\ last.token = NoToken
       /\ \/ store[last.sub] = last.before
          \/ /\ store[last.sub] # Nil
             /\ store[last.sub][2] = last.info.Email
             /\ store[last.sub][3] = last.info.Name
             /\ store[last.sub][4] = last.info.Picture
             /\ store[last.sub][8] >= last.at

\* C20: when goroutines run UserStore operations (login upsert, updateLastLogin,
\* deactivate) for two different users with their Redis commands interleaved,
\* the record and the membership of a user whose operations have all returned
\* are the ones its own operations leave when they run alone.
C20_OtherUsersDoNotInterfere ==
  \A p \in DOMAIN procs :
    procs[p].ops = <<>>
      => \E alone \in {RunAlone([u \in Users |-> Nil], {}, procs[p].all, procs[p].info)} :
           /\ GetUser(store, procs[p].info.Sub, FALSE)
                = GetUser(alone.store, procs[p].info.Sub, FALSE)
           /\ (procs[p].info.Sub \in userList) = (procs[p].info.Sub \in alone.list)

C20_Witness ==
  /\ last.kind = "command" /\ last.proc = "B"
  /\ procs["B"].ops = <<>> /\ procs["B"].all = <<"upsert", "deactivate">>
  /\ procs["A"].all = <<"upsert", "upsert">> /\ Len(procs["A"].ops) = 1
  /\ procs["A"].pc = "ull-get2"
  /\ store["u1"] # Nil /\ store["u2"] # Nil /\ store["u2"][9] = FALSE

\* The profile fields of a stored record / of a provider identity.
StoredProfile(d) == <<d[2], d[3], d[4], d[5]>>

LoginProfile(info) == <<info.Email, info.Name, info.Picture, "oidc">>

\* C21: when two logins for the same subject race, no upsert returns an error
\* under any interleaving; the subject's one record always carries the email,
\* name, picture and provider written by one of the two logins, never a mix, and
\* once both logins have returned the record is stored and listed once.
C21_RacingLoginsLastWriterWins ==
  /\ \A p \in DOMAIN procs : ~procs[p].failed
  /\ store["u1"] # Nil
       => /\ store["u1"][1] = "u1"
          /\ \E p \in DOMAIN procs : StoredProfile(store["u1"]) = LoginProfile(procs[p].info)
  /\ (procs # NoProcs /\ \A p \in DOMAIN procs : procs[p].ops = <<>>)
       => /\ store["u1"] # Nil /\ "u1" \in userList
          /\ store["u2"] = Nil /\ userList = {"u1"}

\* Both logins have returned, A's command came last and the record carries A's
\* profile with lastLogin written.
C21_Witness ==
  /\ procs # NoProcs /\ \A p \in DOMAIN procs : procs[p].ops = <<>>
  /\ procs["A"].info.Sub = procs["B"].info.Sub
  /\ last.kind = "command" /\ last.proc = "A"
  /\ StoredProfile(store["u1"]) = LoginProfile(procs["A"].info)
  /\ store["u1"][8] # ZeroTime

\* C22: a call to the logout endpoint changes no server state (configuration,
\* signing key, user records, membership index) and sets no cookie, and every
\* token the gate admitted just before the logout is admitted just after it.
C22_LogoutRevokesNothing ==
  [][last'.kind = "logout"
       => /\ UNCHANGED <<cfg, OIDCClient, UserManager, store, userList, jar>>
          /\ \A jwt \in Presentable :
               RequireAuth(BearerJWT, jwt, store, FALSE).next
                 => (RequireAuth(BearerJWT, jwt, store, FALSE).next)']_vars

\* After a logout the session token issued before it still passes the gate.
C22_Witness ==
  /\ last.kind = "logout" /\ last.accepted
  /\ held # NoToken
  /\ RequireAuth(BearerJWT, held, store, FALSE).next
  /\ RequireAuth(BearerJWT, held, store, FALSE).user.ID = held.UserID

\* C23: in API-key mode the login endpoint and both callback endpoints reject
\* every request because OIDC is not enabled (the POST callback rejects another
\* method first), set no state cookie, issue no token and leave the UserStore
\* untouched; whenever a callback issues a token the configured mode is OIDC.
C23_ModesAreExclusive ==
  /\ (cfg.AuthType = AuthTypeAPIKey /\ last.kind = "login")
       => /\ last.resp.msg = "OIDC authentication not enabled"
          /\ last.resp.cookieOp = NoSetCookie
          /\ last.resp.urlState = NoCookie /\ last.resp.bodyState = NoCookie
  /\ (cfg.AuthType = AuthTypeAPIKey /\ IsCallback)
       => /\ last.step \in {"mode", "method"}
          /\ last.step = "method" => last.req.method # "POST"
          /\ last.cookieOp = NoSetCookie
          /\ last.token = NoToken /\ ~last.exchanged /\ ~last.upsert /\ ~last.changed
  /\ cfg.AuthType = AuthTypeAPIKey
       => /\ store = [u \in Users |-> Nil] /\ userList = {}
          /\ jar = NoCookie /\ nStates = 0 /\ held = NoToken
  /\ (IsCallback /\ last.token # NoToken) => cfg.AuthType = AuthTypeOIDC

\* A well-formed POST callback with a code, sent to an API-key deployment.
C23_Witness ==
  /\ cfg.AuthType = AuthTypeAPIKey
  /\ last.kind = "callback-post" /\ last.req.method = "POST" /\ last.req.bodyOK
  /\ last.req.code # "" /\ last.req.cookie = last.req.state
  /\ last.step = "mode" /\ last.token = NoToken

\* C24: a successful login request sets the oidc_state cookie, embeds in the
\* authorization URL and returns in the body one and the same value, which no
\* earlier login generated; it creates no user record, membership entry or
\* token. A login request that fails sets no state cookie.
C24_LoginStateIsOneFreshValue ==
  [][last'.kind = "login"
       => /\ UNCHANGED <<store, userList, held, cfg, OIDCClient, UserManager>>
          /\ last'.resp.msg = ""
               => /\ last'.resp.cookieOp.op = "set"
                  /\ last'.resp.cookieOp.value \notin 0..nStates
                  /\ last'.resp.urlState = last'.resp.cookieOp.value
                  /\ last'.resp.bodyState = last'.resp.cookieOp.value
                  /\ last'.viaBrowser => jar' = last'.resp.cookieOp.value
          /\ last'.resp.msg # ""
               => /\ last'.resp.cookieOp = NoSetCookie
                  /\ last'.resp.urlState = NoCookie /\ last'.resp.bodyState = NoCookie
                  /\ jar' = jar]_vars

\* The second successful login of a browser: its cookie now holds the new state.
C24_Witness ==
  /\ last.kind = "login" /\ last.resp.msg = "" /\ last.viaBrowser
  /\ last.resp.cookieOp = SetStateCookie(2)
  /\ last.resp.urlState = 2 /\ last.resp.bodyState = 2 /\ jar = 2

\* The configured mode is unknown, or the mode is OIDC and a required setting
\* is empty.
Misconfigured ==
  \/ cfg.AuthType \notin {AuthTypeAPIKey, AuthTypeOIDC}
  \/ /\ cfg.AuthType = AuthTypeOIDC
     /\ "" \in {cfg.OIDCIssuer, cfg.OIDCClientID, cfg.OIDCClientSecret,
                cfg.OIDCRedirectURL, cfg.JWTSigningKey}

\* C25: with such a configuration startup fails: InitOIDCProvider returns an
\* error and leaves the OIDC client nil, so no request is ever served.
C25_MisconfigurationFailsStartup ==
  Misconfigured
    => /\ OIDCClient = NULL
       /\ last.kind = "startup" /\ last.oidcErr # NoErr

\* The record stored for the user of the last UserStore call.
StoredNow == store[userKey(last.id)]

NotFound(id) == Errorf("user not found: %s", id)

\* C26: UpdateUser on a stored record keeps its createdAt, writes the supplied
\* id, email, name, picture, provider, lastLogin and isActive, and stamps
\* updatedAt with the time of the call; on a missing record it returns "user not
\* found" and writes nothing; a call that returns an error leaves the record.
C26_UpdateKeepsCreatedAtOnly ==
  last.kind = "store-update"
    => /\ (last.before # Nil /\ last.failAt = 0) => last.err = NoErr
       /\ last.err = NoErr
            => /\ last.before # Nil /\ StoredNow # Nil
               /\ StoredNow[6] = last.before[6]
               /\ StoredNow[1] = last.supplied.ID
               /\ StoredNow[2] = last.supplied.Email
               /\ StoredNow[3] = last.supplied.Name
               /\ StoredNow[4] = last.supplied.Picture
               /\ StoredNow[5] = last.supplied.Provider
               /\ StoredNow[8] = last.supplied.LastLogin
               /\ StoredNow[9] = last.supplied.IsActive
               /\ StoredNow[7] >= last.at /\ StoredNow[7] <= now
       /\ last.err # NoErr => StoredNow = last.before
       /\ last.before = Nil
            => /\ last.err # NoErr /\ StoredNow = Nil
               /\ last.failAt # 1 => last.err = NotFound(last.id)

C26_Witness ==
  /\ last.kind = "store-update" /\ last.err = NoErr
  /\ last.before[3] # last.supplied.Name
  /\ last.before[9] # last.supplied.IsActive
  /\ last.before[6] # last.supplied.CreatedAt
  /\ last.before[8] # last.supplied.LastLogin
  /\ StoredNow[7] > last.before[7]

\* C27: UpdateLastLogin stamps lastLogin and updatedAt with the time of the call
\* and leaves id, email, name, picture, provider, createdAt and isActive as
\* stored; on a missing user it returns an error and creates no record; a call
\* that returns an error leaves the record.
C27_LastLoginTouchesTwoFields ==
  last.kind = "store-ull"
    => /\ (last.before # Nil /\ last.failAt = 0) => last.err = NoErr
       /\ last.err = NoErr
            => /\ last.before # Nil /\ StoredNow # Nil
               /\ \A i \in {1, 2, 3, 4, 5, 6, 9} : StoredNow[i] = last.before[i]
               /\ StoredNow[8] >= last.at /\ StoredNow[8] <= now
               /\ StoredNow[7] >= StoredNow[8] /\ StoredNow[7] <= now
       /\ last.err # NoErr => StoredNow = last.before
       /\ last.before = Nil => (last.err # NoErr /\ StoredNow = Nil)

C27_Witness ==
  /\ last.kind = "store-ull" /\ last.err = NoErr
  /\ last.before[9] = FALSE /\ last.before[8] # ZeroTime
  /\ StoredNow[8] > last.before[8] /\ StoredNow[9] = FALSE

\* C28: after DeactivateUser succeeds the user's record is still stored with
\* isActive = false and with id, email, name, picture, provider, createdAt and
\* lastLogin unchanged; GetUser returns it, and ListUsers returns it if the
\* membership set names the user. On a missing user it returns an error and
\* creates no record.
C28_DeactivateRetainsRecord ==
  last.kind = "store-deactivate"
    => /\ (last.before # Nil /\ last.failAt = 0) => last.err = NoErr
       /\ last.err = NoErr
            => /\ last.before # Nil /\ StoredNow # Nil
               /\ StoredNow[9] = FALSE
               /\ \A i \in {1, 2, 3, 4, 5, 6, 8} : StoredNow[i] = last.before[i]
               /\ StoredNow[7] >= last.at /\ StoredNow[7] <= now
               /\ GetUser(store, last.id, FALSE) = [err |-> NoErr, user |-> Unmarshal(StoredNow)]
               /\ (last.id \in userList \/ \E u \in last.listed : u.ID = last.id)
                    => Unmarshal(StoredNow) \in ListUsers(store, userList, FALSE, {}).users
       /\ last.err # NoErr => StoredNow = last.before
       /\ last.before = Nil => (last.err # NoErr /\ StoredNow = Nil)

C28_Witness ==
  /\ last.kind = "store-deactivate" /\ last.err = NoErr
  /\ last.before[9] = TRUE /\ last.before[8] # ZeroTime
  /\ \E u \in last.listed : u.ID = last.id /\ u.IsActive
  /\ \E u \in ListUsers(store, userList, FALSE, {}).users : u.ID = last.id /\ ~u.IsActive

\* C29: ListUsers succeeds whenever the membership set can be read and returns
\* exactly the records of the members whose key is stored and readable; a
\* member whose record is missing or whose read fails is skipped.
C29_ListSkipsUnreadableMembers ==
  last.kind = "store-list"
    => /\ last.err = NoErr <=> ~last.failSMembers
       /\ last.err = NoErr
            => /\ \A id \in userList :
                    (store[userKey(id)] # Nil /\ id \notin last.failIds)
                      => Unmarshal(store[userKey(id)]) \in last.users
               /\ \A u \in last.users :
                    /\ u.ID \in userList /\ u.ID \notin last.failIds
                    /\ store[userKey(u.ID)] # Nil /\ u = Unmarshal(store[userKey(u.ID)])
       /\ last.err # NoErr => last.users = {}

\* Both users are members; one key is gone, the other is read: one user listed.
C29_Witness ==
  /\ last.kind = "store-list" /\ last.err = NoErr
  /\ userList = Users
  /\ \E id \in userList : store[userKey(id)] = Nil
  /\ Cardinality(last.users) = 1

\* The last request asked the resolver of an API-key deployment for the paths
\* of an image that is not a gif.
LegacyNonGif ==
  last.kind = "paths" /\ cfg.AuthType = AuthTypeAPIKey /\ last.format # "gif"

\* ext: .jpg for jpeg or jpg, .png for png, .webp for webp, .jpg otherwise.
ExtOf(format) ==
  CASE format = "png" -> <<".", "png">>
    [] format = "webp" -> <<".", "webp">>
    [] OTHER -> <<".", "jpg">>

\* The three paths spelt out, and the same answer for every user id.
LegacyLayout ==
  /\ last.paths.original
       = <<"original", "/">> \o last.orientation \o <<"/">> \o last.imageID
           \o ExtOf(last.format)
  /\ last.paths.webp
       = last.orientation \o <<"/", "webp", "/">> \o last.imageID \o <<".", "webp">>
  /\ last.paths.avif
       = last.orientation \o <<"/", "avif", "/">> \o last.imageID \o <<".", "avif">>
  /\ \A other \in Strs(MaxPathLen) :
       GenerateStoragePaths([userID |-> other, AuthType |-> cfg.AuthType],
                            last.imageID, last.format, last.orientation) = last.paths

\* C30 as stated: in API-key mode, for every image id, orientation and non-gif
\* format the resolver returns original/<orientation>/<id><ext>,
\* <orientation>/webp/<id>.webp and <orientation>/avif/<id>.avif, whatever the
\* user id.
C30_LegacyLayoutForEveryInput == LegacyNonGif => LegacyLayout

\* A single path element: not empty, no separator, neither "." nor "..".
IsElement(s) ==
  /\ s \notin {<<>>, <<".">>, <<".", ".">>}
  /\ \A i \in 1..Len(s) : s[i] # "/"

\* C30 amended: the layout holds when the orientation is a single path element
\* and the image id contains no separator.
C30_LegacyLayoutForPathElements ==
  (LegacyNonGif /\ IsElement(last.orientation)
     /\ \A i \in 1..Len(last.imageID) : last.imageID[i] # "/")
    => LegacyLayout

\* An unknown format and an image id made of dots, resolved for a user id that
\* would climb out of a directory.
C30_Witness ==
  /\ LegacyNonGif /\ last.format = "bmp" /\ last.orientation = <<"portrait">>
  /\ last.imageID = <<".", ".">> /\ last.userID = <<".", ".">>
  /\ last.paths.original = <<"original", "/", "portrait", "/", ".", ".", ".", "jpg">>

\* The last request asked the resolver of an OIDC deployment for paths.
OIDCPaths == last.kind = "paths" /\ cfg.AuthType = AuthTypeOIDC

\* What the resolver of an API-key deployment returns for the same image.
LegacyPaths ==
  GenerateStoragePaths([userID |-> last.userID, AuthType |-> AuthTypeAPIKey],
                       last.imageID, last.format, last.orientation)

\* users/<userID>/ followed by p.
Nested(userID, p) == <<"users", "/">> \o userID \o <<"/">> \o p

\* C31: for every user id, image id, orientation and format, each of the three
\* paths returned in OIDC mode is users/<userID>/ followed by the path returned
\* in API-key mode for the same image id, orientation and format.
C31_OIDCPathsNestLegacyPaths ==
  OIDCPaths =>
    /\ last.paths.original = Nested(last.userID, LegacyPaths.original)
    /\ last.paths.webp = Nested(last.userID, LegacyPaths.webp)
    /\ last.paths.avif = Nested(last.userID, LegacyPaths.avif)

\* gif/<assetID>.gif, under users/<userID>/ in OIDC mode.
GifPath ==
  IF cfg.AuthType = AuthTypeAPIKey THEN <<"gif", "/">> \o last.imageID \o <<".", "gif">>
  ELSE Nested(last.userID, <<"gif", "/">> \o last.imageID \o <<".", "gif">>)

\* C32: for format gif the three returned paths are one path, gif/<assetID>.gif
\* in API-key mode and users/<userID>/gif/<assetID>.gif in OIDC mode, whatever
\* the orientation.
C32_GifIsOnePath ==
  (last.kind = "paths" /\ last.format = "gif") =>
    /\ last.paths = [original |-> GifPath, webp |-> GifPath, avif |-> GifPath]
    /\ \A o \in Orientations :
         GenerateStoragePaths([userID |-> last.userID, AuthType |-> cfg.AuthType],
                              last.imageID, last.format, o) = last.paths

\* The manifest of the user of the last call, as the deployment's resolver
\* gives it.
Manifest(userID) == {GetUserDirectories(Resolver(userID))[i] : i \in 1..7}

\* C33: EnsureUserDirectories is idempotent: called when every directory of the
\* manifest exists it returns nil and leaves the directories as they were, and
\* after a call that returned nil another call returns nil and changes nothing.
C33_EnsureIsIdempotent ==
  last.kind = "ensure" =>
    /\ last.had => (last.err = NoErr /\ last.same)
    /\ last.err = NoErr =>
         \A fail \in 0..1 :
           EnsureUserDirectories(fs, Resolver(last.userID), fail) = [err |-> NoErr, fs |-> fs]

\* A second call for a user of an OIDC deployment whose seven directories the
\* first call made.
C33_Witness ==
  /\ last.kind = "ensure" /\ last.had /\ last.err = NoErr /\ last.same
  /\ cfg.AuthType = AuthTypeOIDC /\ last.userID = <<"u1">>
  /\ <<"static", "/", "images", "/", "users", "/", "u1", "/", "gif">> \in fs.dirs
  /\ Cardinality(fs.dirs) >= 12

\* DeactivateUser has returned nil to the administrator's request.
DeactivateReturnedNil ==
  /\ procs # NoProcs
  /\ procs["B"].all = <<"deactivate">> /\ procs["B"].ops = <<>> /\ ~procs["B"].failed

\* C34: however a login's CreateOrUpdateUser, its UpdateLastLogin included,
\* interleaves with DeactivateUser for the same user, once DeactivateUser has
\* returned nil the stored isActive is false from then on.
C34_DeactivationSurvivesLogin ==
  DeactivateReturnedNil => ~GetUser(store, "u1", FALSE).user.IsActive

\* C36: over any sequence of logins for a user, logins whose UpdateLastLogin
\* fails included, a login never leaves the stored lastLogin earlier than it was
\* before the login.
C36_LastLoginNeverMovesBack ==
  (IsCallback /\ last.upsert /\ last.before # Nil /\ store[last.sub] # Nil)
    => store[last.sub][8] >= last.before[8]

\* p lies under users/<userID>/.
UnderUser(userID, p) ==
  /\ Len(p) > Len(Nested(userID, <<>>))
  /\ SubSeq(p, 1, Len(Nested(userID, <<>>))) = Nested(userID, <<>>)

\* The three paths as a set.
Slots(paths) == {paths.original, paths.webp, paths.avif}

\* C37: in OIDC mode every path the resolver returns for user u lies under
\* users/<u>/, whatever the user id, and for no other user id does the resolver
\* return one of these paths for the same asset.
C37_UsersAreIsolated ==
  OIDCPaths =>
    /\ \A p \in Slots(last.paths) : UnderUser(last.userID, p)
    /\ \A other \in Strs(MaxPathLen) \ {last.userID} :
         Slots(GenerateStoragePaths([userID |-> other, AuthType |-> cfg.AuthType],
                                    last.imageID, last.format, last.orientation))
           \cap Slots(last.paths) = {}

\* The last request asked for the paths of an image in one of the two
\* orientations the server stores.
StoredOrientation ==
  last.kind = "paths" /\ last.orientation \in {<<"landscape">>, <<"portrait">>}

\* The directories the three files of the last request are written to: the
\* parents of the paths taken under the image base path.
WriteTargetDirs == {Dir(Join(<<cfg.ImageBasePath, p>>)) : p \in Slots(last.paths)}

\* Every write target's directory is in the manifest of the request's user,
\* and exists once EnsureUserDirectories has run for that user on an empty
\* base path.
TargetsAreEnsured ==
  /\ WriteTargetDirs \subseteq Manifest(last.userID)
  /\ \A d \in WriteTargetDirs :
       IsDir(EnsureUserDirectories(NoFS, Resolver(last.userID), 0).fs, d)

\* C38 as stated: for orientation landscape or portrait and any format, the
\* parent directory of each of the three paths, taken under the image base
\* path, is a member of GetUserDirectories for the same mode and user, so that
\* it exists after EnsureUserDirectories.
C38_TargetsAreInManifest == StoredOrientation => TargetsAreEnsured

\* s contains no path separator.
NoSeparator(s) == \A i \in 1..Len(s) : s[i] # "/"

\* C38 amended: the same, for an image id that contains no separator.
C38_TargetsOfPlainIdsAreInManifest ==
  (StoredOrientation /\ NoSeparator(last.imageID)) => TargetsAreEnsured

\* A gif of an OIDC user: its one path lies in the user's gif directory.
C38_Witness ==
  /\ StoredOrientation /\ cfg.AuthType = AuthTypeOIDC /\ last.format = "gif"
  /\ last.userID = <<"a">> /\ last.imageID = <<"a", ".">>
  /\ WriteTargetDirs
       = {<<"static", "/", "images", "/", "users", "/", "a", "/", "gif">>}

\* C39: for every image id, format and orientation GenerateLegacyStoragePaths
\* returns the three paths GenerateStoragePaths returns in API-key mode, whatever
\* user id the resolver was made with.
C39_LegacyFunctionAgrees ==
  (last.kind = "paths" /\ cfg.AuthType = AuthTypeAPIKey) =>
    /\ last.paths = GenerateLegacyStoragePaths(last.imageID, last.format, last.orientation)
    /\ \A other \in Strs(MaxPathLen) :
         GenerateStoragePaths([userID |-> other, AuthType |-> AuthTypeAPIKey],
                              last.imageID, last.format, last.orientation)
           = GenerateLegacyStoragePaths(last.imageID, last.format, last.orientation)

\* A png with an empty orientation and an image id that climbs, asked of a
\* resolver made for a user id with a separator.
C39_Witness ==
  /\ last.kind = "paths" /\ cfg.AuthType = AuthTypeAPIKey
  /\ last.format = "png" /\ last.orientation = <<>>
  /\ last.imageID = <<".", ".">> /\ last.userID = <<"a", "/">>
  /\ last.paths.original = <<"original", "/", ".", ".", ".", "png">>
  /\ GenerateLegacyStoragePaths(last.imageID, last.format, last.orientation).webp
       = <<"webp", "/", ".", ".", ".", "webp">>

\* C35: when the browser lands on the callback URL with one code and state, the
\* client sends the callback POST at most once for that code: the AuthProvider's
\* effect and the callback page's effect do not both send it.
C35_CallbackPostedOnce ==
  \A i, j \in DOMAIN client.posts :
    client.posts[i].code = client.posts[j].code => i = j

\* isAuthenticated() is true only while a token, a user and an expiry that has
\* not passed are all cached.
AuthenticatedOnlyWhileCached ==
  isAuthenticated(client.cache) =>
    /\ client.cache.token # "" /\ client.cache.user # ""
    /\ client.cache.expiry # <<>>
    /\ now < ParseInt(client.cache.expiry) * TicksPerSecond

\* The session cache holds neither token nor user, and isAuthenticated() is
\* false.
CacheCleared ==
  /\ client.cache.token = "" /\ client.cache.user = ""
  /\ ~isAuthenticated(client.cache)

\* C40 as stated: after the client's logout() has completed the session cache
\* holds neither token nor user and isAuthenticated() is false, whether the
\* backend's logout was called with success, called and failed, or not called;
\* and isAuthenticated() is true only while a token, a user and an expiry that
\* has not passed are all cached.
C40_LogoutClearsCache ==
  /\ last.kind = "client-logout" => CacheCleared
  /\ AuthenticatedOnlyWhileCached

\* C40 amended: the cache is cleared by OIDCAuthManager.logout, which the
\* AuthProvider's logout runs only while its authType is oidc; with authType
\* api_key the AuthProvider's logout leaves the cache as it is, and
\* isAuthenticated() is false then.
C40_OIDCLogoutClearsCache ==
  /\ (last.kind = "client-logout" /\ last.backend # "not called") => CacheCleared
  /\ (last.kind = "client-logout" /\ last.backend = "not called")
       => client.ctx.authType = "api_key" /\ ~isAuthenticated(client.cache)
  /\ last.kind = "client-logout" /\ last.by = "AuthProvider"
       => ~client.ctx.isAuthenticated /\ client.ctx.token = "" /\ client.ctx.user = ""
  /\ AuthenticatedOnlyWhileCached

\* The AuthProvider's logout with a token cached and the backend's logout
\* failing.
C40_Witness ==
  /\ last.kind = "client-logout" /\ last.by = "AuthProvider" /\ last.backend = "failed"
  /\ client.cache = NoCache /\ client.ctx.authType = "oidc"

====
